---- MODULE Spec2Model ----
(***************************************************************************)
(* State-machine model of the QtGame simulation engine (GameEngine,        *)
(* Player, Weapon/Projectile, Item).                                        *)
(*                                                                         *)
(* Units.  Time is in milliseconds (the unit of every steady_clock read in *)
(* the source).  Lengths are in 1/1000 pixel and velocities in 1/1000      *)
(* pixel per second, so that position += velocity * deltaTime is integer   *)
(* arithmetic for a deltaTime given in whole milliseconds.  The program    *)
(* constants below keep the values of the source (pixels, pixels/second);  *)
(* px(n) converts them.                                                     *)
(***************************************************************************)
EXTENDS Integers, Sequences, FiniteSets, TLC

VARIABLES
    now,          \* steady_clock reading, ms
    gameState,    \* GameEngine::m_gameState
    winner,       \* GameEngine::m_winner
    player,       \* player[1] = m_player1, player[2] = m_player2
    projectiles,  \* GameEngine::m_projectiles
    items,        \* GameEngine::m_items
    platforms,    \* GameEngine::m_platforms
    timerActive,  \* m_itemDropTimer->isActive()
    timerDue,     \* time of the next timeout of m_itemDropTimer
    vec           \* the last Vector2D operation: operands v, s and result r

vars == <<now, gameState, winner, player, projectiles, items, platforms,
          timerActive, timerDue, vec>>

-----------------------------------------------------------------------------
(* GameConfig.h *)
WINDOW_WIDTH == 1200
WINDOW_HEIGHT == 800
GRAVITY == 800
GROUND_LEVEL == 750
PLAYER_SPEED == 300
PLAYER_JUMP_SPEED == -500
PLAYER_MAX_HP == 100
PLAYER_WIDTH == 40
PLAYER_HEIGHT == 60
BULLET_SPEED == 600
FIST_DAMAGE == 15
KNIFE_DAMAGE == 25
BALL_DAMAGE == 35
RIFLE_DAMAGE == 20
SNIPER_DAMAGE == 60
RIFLE_AMMO == 30
SNIPER_AMMO == 5
BALL_COUNT == 3
FIST_COOLDOWN == 800
KNIFE_COOLDOWN == 600
BALL_COOLDOWN == 1000
RIFLE_COOLDOWN == 150
SNIPER_COOLDOWN == 2000
BANDAGE_HEAL == 20
MEDKIT_HEAL == 100
ADRENALINE_HEAL == 5
ADRENALINE_DURATION == 10000
ITEM_DROP_INTERVAL == 3000
ITEM_DROP_HEIGHT == 50
TARGET_FPS == 60
(* Weapon.h, Item.h, Player.cpp *)
MAX_LIFETIME == 5000
ITEM_LIFETIME == 30000
ATTACK_THROTTLE == 100
PICKUP_MARGIN == 30

px(n) == n * 1000

Abs(a) == IF a < 0 THEN -a ELSE a
Min(a, b) == IF a < b THEN a ELSE b
Max(a, b) == IF a < b THEN b ELSE a

\* v * (d / 1000) for a velocity v and d milliseconds, rounded toward zero and
\* computed without leaving 32-bit integers.
MulMs(v, d) ==
    LET a == Abs(v)
        m == (a \div 1000) * d + ((a % 1000) * d) \div 1000
    IN  IF v < 0 THEN -m ELSE m

\* a * a as a two-limb number <<hi, lo>> in base 10^6, for 0 <= a < 10^6
Sq(a) ==
    LET a1 == a \div 1000
        a0 == a % 1000
        low == 2 * a1 * a0 * 1000 + a0 * a0
    IN  <<a1 * a1 + low \div 1000000, low % 1000000>>

\* sqrt(dx^2 + dy^2) <= r, exactly (Vector2D::length compared with a radius)
LengthLeq(dx, dy, r) ==
    /\ Abs(dx) <= r
    /\ Abs(dy) <= r
    /\ LET sx == Sq(Abs(dx))
           sy == Sq(Abs(dy))
           sr == Sq(r)
           lo == sx[2] + sy[2]
           hi == sx[1] + sy[1] + lo \div 1000000
       IN  \/ hi < sr[1]
           \/ hi = sr[1] /\ lo % 1000000 <= sr[2]

-----------------------------------------------------------------------------
(* Vector2D *)
\* A double is modelled by the fraction <<n, d>> in lowest terms, d > 0, it
\* holds; the operations below are exact on the values they are applied to.
RECURSIVE Gcd(_, _)
Gcd(a, b) == IF b = 0 THEN a ELSE Gcd(b, a % b)

Frac(n, d) ==
    LET g == Gcd(Abs(n), Abs(d))
        sgn == IF d < 0 THEN -1 ELSE 1
    IN  <<(sgn * n) \div g, (sgn * d) \div g>>

Zero == Frac(0, 1)

\* a / b for doubles a and b # 0
FracDiv(a, b) == Frac(a[1] * b[2], a[2] * b[1])

\* std::sqrt(a) for a double a that is the square of a fraction
FracSqrt(a) ==
    <<CHOOSE r \in 0..a[1] : r * r = a[1], CHOOSE r \in 1..a[2] : r * r = a[2]>>

Vector2D(x, y) == [x |-> x, y |-> y]

\* operator/ without the test for a zero scalar: 0 / 0 is not a number, and
\* so not 0
VectorDivUnguarded(v, scalar) ==
    IF scalar # Zero THEN Vector2D(FracDiv(v.x, scalar), FracDiv(v.y, scalar))
    ELSE Vector2D(<<0, 0>>, <<0, 0>>)

\* Vector2D::operator/(scalar)
VectorDiv(v, scalar) ==
    IF scalar # Zero THEN Vector2D(FracDiv(v.x, scalar), FracDiv(v.y, scalar))
    ELSE Vector2D(Zero, Zero)

\* Vector2D::lengthSquared(): x * x + y * y
lengthSquared(v) ==
    Frac(v.x[1] * v.x[1] * v.y[2] * v.y[2] + v.y[1] * v.y[1] * v.x[2] * v.x[2],
         v.x[2] * v.x[2] * v.y[2] * v.y[2])

length(v) == FracSqrt(lengthSquared(v))

normalized(v) ==
    LET len == length(v)
    IN  IF len # Zero THEN VectorDiv(v, len) ELSE Vector2D(Zero, Zero)

\* no Vector2D operation has been applied
NoVector == [op |-> "none", v |-> Vector2D(Zero, Zero), s |-> Zero,
             r |-> Vector2D(Zero, Zero)]

-----------------------------------------------------------------------------
(* Weapon *)
MeleeTypes == {"FIST", "KNIFE"}
RangedTypes == {"BALL", "RIFLE", "SNIPER"}
WeaponTypes == MeleeTypes \cup RangedTypes

InitialAmmo(type) ==
    CASE type = "FIST" -> -1
      [] type = "KNIFE" -> -1
      [] type = "BALL" -> BALL_COUNT
      [] type = "RIFLE" -> RIFLE_AMMO
      [] type = "SNIPER" -> SNIPER_AMMO

getDamage(w) ==
    CASE w.type = "FIST" -> FIST_DAMAGE
      [] w.type = "KNIFE" -> KNIFE_DAMAGE
      [] w.type = "BALL" -> BALL_DAMAGE
      [] w.type = "RIFLE" -> RIFLE_DAMAGE
      [] w.type = "SNIPER" -> SNIPER_DAMAGE

getCooldown(w) ==
    CASE w.type = "FIST" -> FIST_COOLDOWN
      [] w.type = "KNIFE" -> KNIFE_COOLDOWN
      [] w.type = "BALL" -> BALL_COOLDOWN
      [] w.type = "RIFLE" -> RIFLE_COOLDOWN
      [] w.type = "SNIPER" -> SNIPER_COOLDOWN

getAttackRange(w) ==
    CASE w.type = "FIST" -> 50
      [] w.type = "KNIFE" -> 60
      [] w.type = "BALL" -> 400
      [] w.type = "RIFLE" -> 600
      [] w.type = "SNIPER" -> 800

\* Weapon::Weapon(type): full ammo, m_lastAttackTime(0)
Weapon(type) == [type |-> type, ammo |-> InitialAmmo(type), lastAttackTime |-> 0]

hasAmmo(w) == w.ammo > 0 \/ w.ammo = -1

\* canAttack without the cooldown test
canAttackAnyTime(w, t) == hasAmmo(w)

canAttack(w, t) == hasAmmo(w) /\ (t - w.lastAttackTime) >= getCooldown(w)

\* consumeAmmo that forgets the decrement
consumeAmmoNone(w) == w

consumeAmmo(w) == IF w.ammo > 0 THEN [w EXCEPT !.ammo = w.ammo - 1] ELSE w

resetCooldown(w, t) == [w EXCEPT !.lastAttackTime = t]

-----------------------------------------------------------------------------
(* Player *)
\* Player::Player(startPos, color, isPlayerOne)
Player(x, y, isPlayerOne) ==
    [x |-> x, y |-> y, vx |-> 0, vy |-> 0, state |-> "STANDING",
     isPlayerOne |-> isPlayerOne, facingRight |-> TRUE, hp |-> PLAYER_MAX_HP,
     isMovingLeft |-> FALSE, isMovingRight |-> FALSE, isCrouching |-> FALSE,
     isGrounded |-> FALSE, terrain |-> "GROUND", weapon |-> Weapon("FIST"),
     lastAttackTime |-> 0, hasAdrenaline |-> FALSE, adrenalineEndTime |-> 0,
     lastAdrenalineHeal |-> 0]

moveLeft(p) ==
    IF p.isCrouching THEN p
    ELSE [p EXCEPT !.isMovingLeft = TRUE, !.facingRight = FALSE]

moveRight(p) ==
    IF p.isCrouching THEN p
    ELSE [p EXCEPT !.isMovingRight = TRUE, !.facingRight = TRUE]

stopMoving(p) == [p EXCEPT !.isMovingLeft = FALSE, !.isMovingRight = FALSE]

\* jump without the grounded test
jumpAirborne(p) ==
    IF p.isCrouching THEN p
    ELSE [p EXCEPT !.vy = px(PLAYER_JUMP_SPEED), !.isGrounded = FALSE]

jump(p) ==
    IF p.isCrouching \/ ~p.isGrounded THEN p
    ELSE [p EXCEPT !.vy = px(PLAYER_JUMP_SPEED), !.isGrounded = FALSE]

\* crouch without the velocity reset
crouchKeepVelocity(p) ==
    IF ~p.isGrounded THEN p
    ELSE [p EXCEPT !.isCrouching = TRUE]

crouch(p) ==
    IF ~p.isGrounded THEN p
    ELSE [p EXCEPT !.isCrouching = TRUE, !.vx = 0]

stopCrouching(p) == [p EXCEPT !.isCrouching = FALSE]

\* Player::attack(): only the throttle clock and the state label
attack(p, t) ==
    IF t - p.lastAttackTime < ATTACK_THROTTLE THEN p
    ELSE [p EXCEPT !.lastAttackTime = t, !.state = "ATTACKING"]

\* takeDamage without the floor at 0
takeDamageUnclamped(p, damage) == [p EXCEPT !.hp = p.hp - damage]

takeDamage(p, damage) == [p EXCEPT !.hp = Max(0, p.hp - damage)]

heal(p, healAmount) == [p EXCEPT !.hp = Min(PLAYER_MAX_HP, p.hp + healAmount)]

applyAdrenaline(p, duration, t) ==
    [p EXCEPT !.hasAdrenaline = TRUE, !.adrenalineEndTime = t + duration,
              !.lastAdrenalineHeal = t]

isAlive(p) == p.hp > 0

isInvisible(p) == p.terrain = "GRASS" /\ p.isCrouching

\* getCurrentMoveSpeed without the ice multiplier
getCurrentMoveSpeedNoIce(p) ==
    IF p.hasAdrenaline THEN (px(PLAYER_SPEED) * 13) \div 10 ELSE px(PLAYER_SPEED)

\* 300, x 1.5 on ice, x 1.3 with adrenaline, in 1/1000 px per second
getCurrentMoveSpeed(p) ==
    LET base == px(PLAYER_SPEED)
        iced == IF p.terrain = "ICE" THEN (base * 15) \div 10 ELSE base
    IN  IF p.hasAdrenaline THEN (iced * 13) \div 10 ELSE iced

\* the friction branch without the snap to zero below 10 px/s
FrictionNoSnap(vx) ==
    LET a == (Abs(vx) * 8) \div 10
    IN  IF vx < 0 THEN -a ELSE a

\* m_velocity.x *= FRICTION; snapped to 0 below 10 px/s
Friction(vx) ==
    LET a == (Abs(vx) * 8) \div 10
        f == IF vx < 0 THEN -a ELSE a
    IN  IF Abs(f) < px(10) THEN 0 ELSE f

\* updatePhysics without the clamps at the borders and the ground line
updatePhysicsNoClamp(p, dt) ==
    LET vx1 == IF p.isCrouching THEN p.vx
               ELSE IF p.isMovingLeft THEN -getCurrentMoveSpeed(p)
               ELSE IF p.isMovingRight THEN getCurrentMoveSpeed(p)
               ELSE Friction(p.vx)
        vy1 == IF ~p.isGrounded THEN p.vy + GRAVITY * dt ELSE p.vy
    IN  [p EXCEPT !.x = p.x + MulMs(vx1, dt), !.vx = vx1,
                  !.y = p.y + MulMs(vy1, dt), !.vy = vy1]

updatePhysics(p, dt) ==
    LET vx1 == IF p.isCrouching THEN p.vx
               ELSE IF p.isMovingLeft THEN -getCurrentMoveSpeed(p)
               ELSE IF p.isMovingRight THEN getCurrentMoveSpeed(p)
               ELSE Friction(p.vx)
        vy1 == IF ~p.isGrounded THEN p.vy + GRAVITY * dt ELSE p.vy
        x1 == p.x + MulMs(vx1, dt)
        y1 == p.y + MulMs(vy1, dt)
        xmax == px(WINDOW_WIDTH - PLAYER_WIDTH)
        ymax == px(GROUND_LEVEL - PLAYER_HEIGHT)
        out == x1 < 0 \/ x1 > xmax
        x2 == IF x1 < 0 THEN 0 ELSE IF x1 > xmax THEN xmax ELSE x1
        vx2 == IF out THEN 0 ELSE vx1
        low == y1 >= ymax
    IN  [p EXCEPT !.x = x2, !.vx = vx2,
                  !.y = IF low THEN ymax ELSE y1,
                  !.vy = IF low THEN 0 ELSE vy1,
                  !.isGrounded = IF low THEN TRUE ELSE p.isGrounded]

\* updateAdrenalineEffect that heals before it tests the end time
updateAdrenalineEffectHealFirst(p, t) ==
    IF ~p.hasAdrenaline THEN p
    ELSE LET q == IF t - p.lastAdrenalineHeal >= 1000
                  THEN [heal(p, ADRENALINE_HEAL) EXCEPT !.lastAdrenalineHeal = t]
                  ELSE p
         IN  IF t >= p.adrenalineEndTime THEN [q EXCEPT !.hasAdrenaline = FALSE] ELSE q

\* updateAdrenalineEffect that heals without moving the checkpoint
updateAdrenalineEffectKeepCheckpoint(p, t) ==
    IF ~p.hasAdrenaline THEN p
    ELSE IF t >= p.adrenalineEndTime THEN [p EXCEPT !.hasAdrenaline = FALSE]
    ELSE IF t - p.lastAdrenalineHeal >= 1000
         THEN heal(p, ADRENALINE_HEAL)
    ELSE p

updateAdrenalineEffect(p, t) ==
    IF ~p.hasAdrenaline THEN p
    ELSE IF t >= p.adrenalineEndTime THEN [p EXCEPT !.hasAdrenaline = FALSE]
    ELSE IF t - p.lastAdrenalineHeal >= 1000
         THEN [heal(p, ADRENALINE_HEAL) EXCEPT !.lastAdrenalineHeal = t]
    ELSE p

StateLabel(p) ==
    IF p.isCrouching THEN "CROUCHING"
    ELSE IF ~p.isGrounded THEN "JUMPING"
    ELSE IF p.isMovingLeft \/ p.isMovingRight THEN "MOVING"
    ELSE "STANDING"

\* Player::update that leaves an ATTACKING label alone
PlayerUpdateKeepAttacking(p, dt, t) ==
    LET q == updateAdrenalineEffect(updatePhysics(p, dt), t)
    IN  IF q.state = "ATTACKING" THEN q ELSE [q EXCEPT !.state = StateLabel(q)]

\* Player::update(deltaTime) at clock reading t
PlayerUpdate(p, dt, t) ==
    LET q == updateAdrenalineEffect(updatePhysics(p, dt), t)
    IN  [q EXCEPT !.state = StateLabel(q)]

-----------------------------------------------------------------------------
(* Geometry and the fixed map *)
checkRectCollision(x1, y1, w1, h1, x2, y2, w2, h2) ==
    /\ x1 < x2 + w2
    /\ x1 + w1 > x2
    /\ y1 < y2 + h2
    /\ y1 + h1 > y2

checkCircleRectCollision(cx, cy, radius, rx, ry, rw, rh) ==
    LET closestX == Max(rx, Min(cx, rx + rw))
        closestY == Max(ry, Min(cy, ry + rh))
    IN  LengthLeq(cx - closestX, cy - closestY, radius)

Platform(x, y, w, h, type) ==
    [x |-> px(x), y |-> px(y), w |-> px(w), h |-> px(h), type |-> type]

\* GameEngine::createPlatforms(): the list it leaves in m_platforms after
\* clearing and rebuilding it
createPlatforms ==
    << Platform(0, GROUND_LEVEL, WINDOW_WIDTH, 50, "GROUND"),
       Platform(450, 600, 300, 20, "GRASS"),
       Platform(100, 500, 200, 20, "ICE"),
       Platform(900, 500, 200, 20, "GROUND"),
       Platform(350, 400, 400, 20, "ICE"),
       Platform(50, 300, 150, 20, "GRASS"),
       Platform(1000, 300, 150, 20, "GRASS") >>

PW == px(PLAYER_WIDTH)
PH == px(PLAYER_HEIGHT)

\* The loop of checkPlayerPlatformCollision over the platforms.  s is the
\* snapshot (playerPos, playerVel) taken before the loop; acc is what the
\* setPosition/setVelocity calls have written so far and nowGrounded.
RECURSIVE PlatformLoop(_, _, _)
PlatformLoop(s, acc, k) ==
    IF k > Len(platforms) THEN acc
    ELSE
      LET pl == platforms[k]
          hit == checkRectCollision(s.x, s.y, PW, PH, pl.x, pl.y, pl.w, pl.h)
          next ==
            IF ~hit THEN acc
            ELSE IF s.vy > 0 /\ s.y < pl.y
              THEN [acc EXCEPT !.x = s.x, !.y = pl.y - PH, !.vx = s.vx, !.vy = 0,
                               !.nowGrounded = TRUE]
            ELSE IF s.vy < 0 /\ s.y > pl.y
              THEN [acc EXCEPT !.x = s.x, !.y = pl.y + pl.h, !.vx = s.vx, !.vy = 0]
            ELSE [acc EXCEPT
                    !.x = IF s.vx > 0 THEN pl.x - PW
                          ELSE IF s.vx < 0 THEN pl.x + pl.w ELSE acc.x,
                    !.y = IF s.vx # 0 THEN s.y ELSE acc.y,
                    !.vx = 0, !.vy = s.vy]
      IN  PlatformLoop(s, next, k + 1)

\* second loop: feet within 10 px below some platform top, x ranges overlapping
StandingOnPlatform(s) ==
    \E k \in 1..Len(platforms) :
        LET pl == platforms[k]
        IN  /\ s.x + PW > pl.x
            /\ s.x < pl.x + pl.w
            /\ s.y + PH >= pl.y
            /\ s.y + PH <= pl.y + px(10)

RECURSIVE TerrainLoop(_, _)
TerrainLoop(p, k) ==
    IF k > Len(platforms) THEN "GROUND"
    ELSE
      LET pl == platforms[k]
          bottom == p.y + PH
      IN  IF /\ p.x + PW > pl.x
             /\ p.x < pl.x + pl.w
             /\ bottom >= pl.y - px(5)
             /\ bottom <= pl.y + pl.h + px(15)
          THEN pl.type
          ELSE TerrainLoop(p, k + 1)

getPlayerTerrainType(p) == IF ~p.isGrounded THEN "GROUND" ELSE TerrainLoop(p, 1)

checkPlayerPlatformCollision(p) ==
    LET acc0 == [x |-> p.x, y |-> p.y, vx |-> p.vx, vy |-> p.vy, nowGrounded |-> FALSE]
        acc == PlatformLoop(p, acc0, 1)
        nowGrounded ==
            \/ acc.nowGrounded
            \/ p.y + PH >= px(GROUND_LEVEL - 5)
            \/ StandingOnPlatform(p)
        landed == nowGrounded /\ ~p.isGrounded /\ p.vy > 0
        q == [p EXCEPT !.x = acc.x, !.y = acc.y,
                       !.vx = IF landed THEN p.vx ELSE acc.vx,
                       !.vy = IF landed THEN 0 ELSE acc.vy,
                       !.isGrounded = nowGrounded]
    IN  [q EXCEPT !.terrain = IF nowGrounded THEN getPlayerTerrainType(q) ELSE "GROUND"]

-----------------------------------------------------------------------------
(* Projectile *)
Radius(type) == IF type = "BULLET" THEN px(3) ELSE IF type = "THROWN" THEN px(8) ELSE px(5)

\* Projectile::Projectile(...) created at clock reading t
Projectile(x, y, vx, vy, damage, type, ownerId, t) ==
    [x |-> x, y |-> y, vx |-> vx, vy |-> vy, damage |-> damage, type |-> type,
     ownerId |-> ownerId, radius |-> Radius(type), startTime |-> t]

ProjectileUpdate(pr, dt) ==
    [pr EXCEPT !.x = pr.x + MulMs(pr.vx, dt),
               !.y = pr.y + MulMs(pr.vy, dt),
               !.vy = IF pr.type = "THROWN" THEN pr.vy + GRAVITY * dt ELSE pr.vy]

\* isValid without the lifetime test
ProjectileIsValidNoLifetime(pr, t) ==
    ~(\/ pr.x < px(-100)
      \/ pr.x > px(WINDOW_WIDTH + 100)
      \/ pr.y < px(-100)
      \/ pr.y > px(WINDOW_HEIGHT + 100))

ProjectileIsValid(pr, t) ==
    /\ ~(t - pr.startTime > MAX_LIFETIME)
    /\ ~(\/ pr.x < px(-100)
         \/ pr.x > px(WINDOW_WIDTH + 100)
         \/ pr.y < px(-100)
         \/ pr.y > px(WINDOW_HEIGHT + 100))

\* BallWeapon::attack: 400 px/s at -30 degrees (cos = 0.866025..., sin = -0.5)
BallProjectile(p, w, t) ==
    Projectile(p.x + (IF p.facingRight THEN px(32) ELSE px(-12)), p.y + px(18),
               IF p.facingRight THEN 346410 ELSE -346410, px(-200),
               getDamage(w), "THROWN", IF p.isPlayerOne THEN 0 ELSE 1, t)

\* RifleWeapon::attack / SniperWeapon::attack: flat shot, sniper 1.5 x faster
BulletProjectile(p, w, t) ==
    LET speed == IF w.type = "SNIPER" THEN (px(BULLET_SPEED) * 15) \div 10
                 ELSE px(BULLET_SPEED)
    IN  Projectile(p.x + (IF p.facingRight THEN PW ELSE px(-5)), p.y + px(24),
                   IF p.facingRight THEN speed ELSE -speed, 0,
                   getDamage(w), "BULLET", IF p.isPlayerOne THEN 0 ELSE 1, t)

\* <ranged>Weapon::attack(player, targetPos): the weapon afterwards and the
\* projectiles it produced (none when canAttack() is false)
WeaponAttack(p, t) ==
    LET w == p.weapon
    IN  IF ~canAttack(w, t) THEN [weapon |-> w, shots |-> << >>]
        ELSE [weapon |-> resetCooldown(consumeAmmo(w), t),
              shots |-> << IF w.type = "BALL" THEN BallProjectile(p, w, t)
                           ELSE BulletProjectile(p, w, t) >>]

-----------------------------------------------------------------------------
(* Item *)
WeaponItemTypes == {"WEAPON_KNIFE", "WEAPON_BALL", "WEAPON_RIFLE", "WEAPON_SNIPER"}
ItemTypes == WeaponItemTypes \cup {"BANDAGE", "MEDKIT", "ADRENALINE"}

ItemWidth(type) ==
    CASE type = "WEAPON_KNIFE" -> px(25)
      [] type = "WEAPON_BALL" -> px(16)
      [] type = "WEAPON_RIFLE" -> px(40)
      [] type = "WEAPON_SNIPER" -> px(50)
      [] type = "BANDAGE" -> px(20)
      [] type = "MEDKIT" -> px(25)
      [] type = "ADRENALINE" -> px(15)

ItemHeight(type) ==
    CASE type = "WEAPON_KNIFE" -> px(8)
      [] type = "WEAPON_BALL" -> px(16)
      [] type = "WEAPON_RIFLE" -> px(12)
      [] type = "WEAPON_SNIPER" -> px(15)
      [] type = "BANDAGE" -> px(15)
      [] type = "MEDKIT" -> px(20)
      [] type = "ADRENALINE" -> px(25)

\* Item::Item(type, position) created at clock reading t
Item(type, x, y, t) ==
    [type |-> type, x |-> x, y |-> y, vx |-> 0, vy |-> px(200),
     isGrounded |-> FALSE, isValid |-> TRUE, spawnTime |-> t]

ItemUpdate(it, dt) ==
    IF it.isGrounded THEN it
    ELSE LET vy1 == it.vy + GRAVITY * dt
         IN  [it EXCEPT !.vy = vy1, !.x = it.x + MulMs(it.vx, dt),
                        !.y = it.y + MulMs(vy1, dt)]

\* isValid without the lifetime test
ItemIsValidNoLifetime(it, t) == it.isValid

ItemIsValid(it, t) == it.isValid /\ (t - it.spawnTime) < ITEM_LIFETIME

\* createWeapon with the sniper case returning a rifle
createWeaponMixed(it) ==
    CASE it.type = "WEAPON_KNIFE" -> Weapon("KNIFE")
      [] it.type = "WEAPON_BALL" -> Weapon("BALL")
      [] it.type = "WEAPON_RIFLE" -> Weapon("RIFLE")
      [] it.type = "WEAPON_SNIPER" -> Weapon("RIFLE")

createWeapon(it) ==
    CASE it.type = "WEAPON_KNIFE" -> Weapon("KNIFE")
      [] it.type = "WEAPON_BALL" -> Weapon("BALL")
      [] it.type = "WEAPON_RIFLE" -> Weapon("RIFLE")
      [] it.type = "WEAPON_SNIPER" -> Weapon("SNIPER")

\* <Item>::onPickup(player): success flag, the player and the item afterwards
HealAmount(type) == IF type = "BANDAGE" THEN BANDAGE_HEAL ELSE MEDKIT_HEAL

\* onPickup without the full-health test
HealingOnPickupAlways(it, p) ==
    [ok |-> TRUE, player |-> heal(p, HealAmount(it.type)),
     item |-> [it EXCEPT !.isValid = FALSE]]

HealingOnPickup(it, p) ==
    IF p.hp < PLAYER_MAX_HP
    THEN [ok |-> TRUE, player |-> heal(p, HealAmount(it.type)),
          item |-> [it EXCEPT !.isValid = FALSE]]
    ELSE [ok |-> FALSE, player |-> p, item |-> it]

\* onPickup whose new weapon takes over the old weapon's time of last attack
onPickupKeepCooldown(it, p, t) ==
    IF it.type \in WeaponItemTypes
    THEN [ok |-> TRUE,
          player |-> [p EXCEPT !.weapon = [createWeapon(it) EXCEPT
                                   !.lastAttackTime = p.weapon.lastAttackTime]],
          item |-> [it EXCEPT !.isValid = FALSE]]
    ELSE IF it.type = "ADRENALINE"
    THEN [ok |-> TRUE, player |-> applyAdrenaline(p, ADRENALINE_DURATION, t),
          item |-> [it EXCEPT !.isValid = FALSE]]
    ELSE HealingOnPickup(it, p)

onPickup(it, p, t) ==
    IF it.type \in WeaponItemTypes
    THEN [ok |-> TRUE, player |-> [p EXCEPT !.weapon = createWeapon(it)],
          item |-> [it EXCEPT !.isValid = FALSE]]
    ELSE IF it.type = "ADRENALINE"
    THEN [ok |-> TRUE, player |-> applyAdrenaline(p, ADRENALINE_DURATION, t),
          item |-> [it EXCEPT !.isValid = FALSE]]
    ELSE HealingOnPickup(it, p)

\* Player::pickupItem(item)
pickupItem(p, it, t) ==
    IF ~ItemIsValid(it, t) THEN [ok |-> FALSE, player |-> p, item |-> it]
    ELSE onPickup(it, p, t)

-----------------------------------------------------------------------------
(* GameEngine *)
Other(i) == 3 - i

\* the hit test without the stealth test
ProjectileHitsStealthed(pr, p, ownerId) ==
    /\ pr.ownerId # ownerId
    /\ checkCircleRectCollision(pr.x, pr.y, pr.radius, p.x, p.y, PW, PH)

\* the hit test without the owner comparison
ProjectileHitsAnyone(pr, p, ownerId) ==
    /\ ~isInvisible(p)
    /\ checkCircleRectCollision(pr.x, pr.y, pr.radius, p.x, p.y, PW, PH)

\* lines 411-416 / 423-428: projectile pr against the player p with id ownerId
ProjectileHits(pr, p, ownerId) ==
    /\ pr.ownerId # ownerId
    /\ ~isInvisible(p)
    /\ checkCircleRectCollision(pr.x, pr.y, pr.radius, p.x, p.y, PW, PH)

\* The loop of checkProjectilePlayerCollision: ps the players so far, kept the
\* projectiles not erased so far.
RECURSIVE ProjectilePlayerLoop(_, _, _, _)
ProjectilePlayerLoop(ps, prs, k, kept) ==
    IF k > Len(prs) THEN [player |-> ps, projectiles |-> kept]
    ELSE
      LET pr == prs[k]
          hit1 == ProjectileHits(pr, ps[1], 0)
          hit2 == ~hit1 /\ ProjectileHits(pr, ps[2], 1)
          ps1 == IF hit1 THEN [ps EXCEPT ![1] = takeDamage(ps[1], pr.damage)]
                 ELSE IF hit2 THEN [ps EXCEPT ![2] = takeDamage(ps[2], pr.damage)]
                 ELSE ps
      IN  ProjectilePlayerLoop(ps1, prs, k + 1,
                               IF hit1 \/ hit2 THEN kept ELSE Append(kept, pr))

checkProjectilePlayerCollision(ps, prs) == ProjectilePlayerLoop(ps, prs, 1, << >>)

HitsPlatform(pr) ==
    \E k \in 1..Len(platforms) :
        LET pl == platforms[k]
        IN  checkCircleRectCollision(pr.x, pr.y, pr.radius, pl.x, pl.y, pl.w, pl.h)

\* checkProjectilePlatformCollision() erasing nothing
checkProjectilePlatformCollisionNone(prs) == prs

checkProjectilePlatformCollision(prs) == SelectSeq(prs, LAMBDA pr : ~HitsPlatform(pr))

\* updateProjectiles(deltaTime), the clock reading t in isValid()
updateProjectiles(prs, dt, t) ==
    SelectSeq([k \in 1..Len(prs) |-> ProjectileUpdate(prs[k], dt)],
              LAMBDA pr : ProjectileIsValid(pr, t))

\* first platform the item's box overlaps, 0 if none
RECURSIVE LandingPlatform(_, _)
LandingPlatform(it, k) ==
    IF k > Len(platforms) THEN 0
    ELSE LET pl == platforms[k]
         IN  IF checkRectCollision(it.x, it.y, ItemWidth(it.type), ItemHeight(it.type),
                                   pl.x, pl.y, pl.w, pl.h)
             THEN k ELSE LandingPlatform(it, k + 1)

ItemStep(it, dt) ==
    LET u == ItemUpdate(it, dt)
        k == LandingPlatform(u, 1)
    IN  IF k = 0 THEN u
        ELSE [u EXCEPT !.y = platforms[k].y - ItemHeight(u.type),
                       !.vx = 0, !.vy = 0, !.isGrounded = TRUE]

\* updateItems without the erase of invalid items
updateItemsNoPurge(its, dt, t) == [k \in 1..Len(its) |-> ItemStep(its[k], dt)]

updateItems(its, dt, t) ==
    SelectSeq([k \in 1..Len(its) |-> ItemStep(its[k], dt)],
              LAMBDA it : ItemIsValid(it, t))

\* lines 95-104: the winner the game-over check declares, 0 if none
WinCheck(ps) == IF ~isAlive(ps[1]) THEN 2 ELSE IF ~isAlive(ps[2]) THEN 1 ELSE 0

\* lines 124-131 / 156-163: the item's box against the player's box grown by
\* PICKUP_MARGIN on every side
InPickupRange(p, it) ==
    checkRectCollision(p.x - px(PICKUP_MARGIN), p.y - px(PICKUP_MARGIN),
                       PW + px(2 * PICKUP_MARGIN), PH + px(2 * PICKUP_MARGIN),
                       it.x, it.y, ItemWidth(it.type), ItemHeight(it.type))

\* the pickup scan without the break after a successful pickup
RECURSIVE PickupLoopNoBreak(_, _, _, _)
PickupLoopNoBreak(p, its, k, t) ==
    IF k > Len(its) THEN [player |-> p, items |-> its]
    ELSE
      LET it == its[k]
          near == InPickupRange(p, it)
          r == pickupItem(p, it, t)
      IN  IF ItemIsValid(it, t) /\ near /\ r.ok
          THEN PickupLoopNoBreak(r.player, [its EXCEPT ![k] = r.item], k + 1, t)
          ELSE PickupLoopNoBreak(p, its, k + 1, t)

\* lines 120-137 / 152-169: the pickup scan of a crouch key press
RECURSIVE PickupLoop(_, _, _, _)
PickupLoop(p, its, k, t) ==
    IF k > Len(its) THEN [player |-> p, items |-> its]
    ELSE
      LET it == its[k]
          near == InPickupRange(p, it)
          r == pickupItem(p, it, t)
      IN  IF ItemIsValid(it, t) /\ near /\ r.ok
          THEN [player |-> r.player, items |-> [its EXCEPT ![k] = r.item]]
          ELSE PickupLoop(p, its, k + 1, t)

\* the melee branch without the facing test
MeleeAttackAnyFacing(p, target, t) ==
    LET w == p.weapon
    IN  IF /\ canAttack(w, t)
           /\ LengthLeq(p.x - target.x, p.y - target.y, px(getAttackRange(w)))
           /\ ~isInvisible(target)
        THEN takeDamage(target, getDamage(w))
        ELSE target

\* lines 474-492: the melee branch; the target after the attack
MeleeAttack(p, target, t) ==
    LET w == p.weapon
        facingTarget == \/ p.facingRight /\ target.x > p.x
                        \/ ~p.facingRight /\ target.x < p.x
    IN  IF /\ canAttack(w, t)
           /\ LengthLeq(p.x - target.x, p.y - target.y, px(getAttackRange(w)))
           /\ facingTarget
           /\ ~isInvisible(target)
        THEN takeDamage(target, getDamage(w))
        ELSE target

\* handlePlayerAttack(player) for player i: the players and projectiles afterwards
handlePlayerAttack(ps, prs, i, t) ==
    LET p == attack(ps[i], t)
    IN  IF p.weapon.type \in MeleeTypes
        THEN [player |-> [ps EXCEPT ![i] = p, ![Other(i)] = MeleeAttack(p, ps[Other(i)], t)],
              projectiles |-> prs]
        ELSE LET r == WeaponAttack(p, t)
             IN  [player |-> [ps EXCEPT ![i] = [p EXCEPT !.weapon = r.weapon]],
                  projectiles |-> prs \o r.shots]

Keys == {"LEFT", "RIGHT", "JUMP", "CROUCH", "FIRE"}
ReleaseKeys == {"LEFT", "RIGHT", "CROUCH"}

\* initialize over a createPlatforms that does not clear the list first
InitializeKeepPlatforms ==
    /\ player' = [i \in {1, 2} |->
                    IF i = 1 THEN Player(px(200), px(GROUND_LEVEL - PLAYER_HEIGHT), TRUE)
                    ELSE Player(px(1000), px(GROUND_LEVEL - PLAYER_HEIGHT), FALSE)]
    /\ gameState' = "PLAYING"
    /\ winner' = 0
    /\ platforms' = platforms \o createPlatforms
    /\ projectiles' = << >>
    /\ items' = << >>

\* GameEngine::initialize()
Initialize ==
    /\ player' = [i \in {1, 2} |->
                    IF i = 1 THEN Player(px(200), px(GROUND_LEVEL - PLAYER_HEIGHT), TRUE)
                    ELSE Player(px(1000), px(GROUND_LEVEL - PLAYER_HEIGHT), FALSE)]
    /\ gameState' = "PLAYING"
    /\ winner' = 0
    /\ platforms' = createPlatforms
    /\ projectiles' = << >>
    /\ items' = << >>

\* GameEngine::startGame()
StartGame ==
    /\ gameState' = "PLAYING"
    /\ timerActive' = TRUE
    /\ timerDue' = now + ITEM_DROP_INTERVAL
    /\ UNCHANGED <<now, winner, player, projectiles, items, platforms, vec>>

\* togglePause that leaves the drop timer running when it pauses
TogglePauseKeepTimer ==
    /\ \/ /\ gameState = "PLAYING"
          /\ gameState' = "PAUSED"
          /\ UNCHANGED <<timerActive, timerDue>>
       \/ /\ gameState = "PAUSED"
          /\ gameState' = "PLAYING"
          /\ timerActive' = TRUE
          /\ timerDue' = now + ITEM_DROP_INTERVAL
       \/ /\ gameState = "GAME_OVER"
          /\ UNCHANGED <<gameState, timerActive, timerDue>>
    /\ UNCHANGED <<now, winner, player, projectiles, items, platforms, vec>>

\* togglePause with a plain else for the second branch
TogglePauseElse ==
    /\ \/ /\ gameState = "PLAYING"
          /\ gameState' = "PAUSED"
          /\ timerActive' = FALSE
          /\ UNCHANGED timerDue
       \/ /\ gameState # "PLAYING"
          /\ gameState' = "PLAYING"
          /\ timerActive' = TRUE
          /\ timerDue' = now + ITEM_DROP_INTERVAL
    /\ UNCHANGED <<now, winner, player, projectiles, items, platforms, vec>>

\* GameEngine::togglePause()
TogglePause ==
    /\ \/ /\ gameState = "PLAYING"
          /\ gameState' = "PAUSED"
          /\ timerActive' = FALSE
          /\ UNCHANGED timerDue
       \/ /\ gameState = "PAUSED"
          /\ gameState' = "PLAYING"
          /\ timerActive' = TRUE
          /\ timerDue' = now + ITEM_DROP_INTERVAL
       \/ /\ gameState = "GAME_OVER"
          /\ UNCHANGED <<gameState, timerActive, timerDue>>
    /\ UNCHANGED <<now, winner, player, projectiles, items, platforms, vec>>

\* GameEngine::resetGame(): initialize() then startGame()
ResetGame ==
    /\ Initialize
    /\ timerActive' = TRUE
    /\ timerDue' = now + ITEM_DROP_INTERVAL
    /\ UNCHANGED <<now, vec>>

\* update() with the two passes of checkCollisions() in the other order
EngineUpdatePlatformsFirst(dt, t) ==
    LET moved == [i \in {1, 2} |->
                    checkPlayerPlatformCollision(
                        IF isAlive(player[i]) THEN PlayerUpdate(player[i], dt, t)
                        ELSE player[i])]
        prs == updateProjectiles(projectiles, dt, t)
        its == updateItems(items, dt, t)
        hit == checkProjectilePlayerCollision(moved, checkProjectilePlatformCollision(prs))
        w == WinCheck(hit.player)
    IN  [player |-> hit.player,
         projectiles |-> hit.projectiles,
         items |-> its,
         winner |-> IF w # 0 THEN w ELSE winner,
         gameState |-> IF w # 0 THEN "GAME_OVER" ELSE gameState,
         timerActive |-> IF w # 0 THEN FALSE ELSE timerActive]

\* GameEngine::update(deltaTime) with the clock reading t: the values afterwards
EngineUpdate(dt, t) ==
    LET moved == [i \in {1, 2} |->
                    checkPlayerPlatformCollision(
                        IF isAlive(player[i]) THEN PlayerUpdate(player[i], dt, t)
                        ELSE player[i])]
        prs == updateProjectiles(projectiles, dt, t)
        its == updateItems(items, dt, t)
        hit == checkProjectilePlayerCollision(moved, prs)
        w == WinCheck(hit.player)
    IN  [player |-> hit.player,
         projectiles |-> checkProjectilePlatformCollision(hit.projectiles),
         items |-> its,
         winner |-> IF w # 0 THEN w ELSE winner,
         gameState |-> IF w # 0 THEN "GAME_OVER" ELSE gameState,
         timerActive |-> IF w # 0 THEN FALSE ELSE timerActive]

\* the body of update() past its state test: every field it writes
UpdateStep(dt) ==
    \E r \in {EngineUpdate(dt, now + dt)} :
        /\ player' = r.player
        /\ projectiles' = r.projectiles
        /\ items' = r.items
        /\ winner' = r.winner
        /\ gameState' = r.gameState
        /\ timerActive' = r.timerActive

\* gameLoop over an update() without the state test
GameLoopAlways(dt) ==
    /\ now' = now + dt
    /\ UNCHANGED <<timerDue, platforms, vec>>
    /\ UpdateStep(dt)

\* GameWindow::gameLoop(): dt ms have passed since the previous frame
GameLoop(dt) ==
    /\ now' = now + dt
    /\ UNCHANGED <<timerDue, platforms, vec>>
    /\ IF gameState # "PLAYING"
       THEN UNCHANGED <<gameState, winner, player, projectiles, items, timerActive>>
       ELSE UpdateStep(dt)

\* the key dispatch of handleKeyPress past its state test
KeyPressEffect(i, k) ==
    CASE k = "LEFT" ->
           /\ player' = [player EXCEPT ![i] = moveLeft(player[i])]
           /\ UNCHANGED <<projectiles, items>>
      [] k = "RIGHT" ->
           /\ player' = [player EXCEPT ![i] = moveRight(player[i])]
           /\ UNCHANGED <<projectiles, items>>
      [] k = "JUMP" ->
           /\ player' = [player EXCEPT ![i] = jump(player[i])]
           /\ UNCHANGED <<projectiles, items>>
      [] k = "CROUCH" ->
           \E r \in {PickupLoop(crouch(player[i]), items, 1, now)} :
               /\ player' = [player EXCEPT ![i] = r.player]
               /\ items' = r.items
               /\ UNCHANGED projectiles
      [] k = "FIRE" ->
           \E r \in {handlePlayerAttack(player, projectiles, i, now)} :
               /\ player' = r.player
               /\ projectiles' = r.projectiles
               /\ UNCHANGED items

\* handleKeyPress without the state test
HandleKeyPressAlways(i, k) ==
    /\ UNCHANGED <<now, gameState, winner, platforms, timerActive, timerDue, vec>>
    /\ KeyPressEffect(i, k)

\* GameEngine::handleKeyPress(key), key being the key `k` of player i
HandleKeyPress(i, k) ==
    /\ UNCHANGED <<now, gameState, winner, platforms, timerActive, timerDue, vec>>
    /\ IF gameState # "PLAYING" THEN UNCHANGED <<player, projectiles, items>>
       ELSE KeyPressEffect(i, k)

\* GameEngine::handleKeyRelease(key)
HandleKeyRelease(i, k) ==
    /\ UNCHANGED <<now, gameState, winner, projectiles, items, platforms, timerActive,
                   timerDue, vec>>
    /\ IF gameState # "PLAYING" THEN UNCHANGED player
       ELSE IF k = "CROUCH"
            THEN player' = [player EXCEPT ![i] = stopCrouching(player[i])]
            ELSE player' = [player EXCEPT ![i] = stopMoving(player[i])]

\* GameEngine::spawnRandomItem(), the timeout slot of m_itemDropTimer
SpawnRandomItem(type, x) ==
    /\ timerActive
    /\ now >= timerDue
    /\ timerDue' = now + ITEM_DROP_INTERVAL
    /\ IF gameState # "PLAYING" THEN UNCHANGED items
       ELSE items' = Append(items, Item(type, x, px(ITEM_DROP_HEIGHT), now))
    /\ UNCHANGED <<now, gameState, winner, player, projectiles, platforms, timerActive,
                   vec>>

-----------------------------------------------------------------------------
(* Specifications *)
\* the steady_clock reading when the match starts (the clock's epoch is not the
\* program's to choose; every cooldown has long elapsed since it)
ClockStart == 100000

\* GameWindow::GameWindow(): the game timer's interval, 1000 / TARGET_FPS
FRAME_MS == 1000 \div TARGET_FPS

\* One step of the program: a frame of the game loop at one of the clock readings
\* `times`, the press or release of one of the keys cmds (pairs of a player and
\* its key), a call of the engine's interface, or a timeout of the item drop timer.
Step(times, cmds, types, xs) ==
    \/ \E t \in times : t > now /\ GameLoop(t - now)
    \/ \E c \in cmds : HandleKeyPress(c[1], c[2])
    \/ \E c \in cmds : c[2] \in ReleaseKeys /\ HandleKeyRelease(c[1], c[2])
    \/ TogglePause
    \/ ResetGame
    \/ StartGame
    \/ \E type \in types, x \in xs : SpawnRandomItem(type, x)

\* a player standing on the ground line at x (px) in the middle of a match
Standing(x, isPlayerOne, facingRight, hp, weapon) ==
    [Player(px(x), px(GROUND_LEVEL - PLAYER_HEIGHT), isPlayerOne) EXCEPT
        !.isGrounded = TRUE, !.facingRight = facingRight, !.hp = hp,
        !.weapon = weapon]

\* an item that has come to rest on the ground line at x (px), spawned at t
Resting(type, x, t) ==
    [Item(type, px(x), px(GROUND_LEVEL) - ItemHeight(type), t) EXCEPT
        !.vy = 0, !.isGrounded = TRUE]

\* a ranged weapon with `ammo` rounds left, last fired at t
Used(type, ammo, t) == [Weapon(type) EXCEPT !.ammo = ammo, !.lastAttackTime = t]

\* a match in progress at ClockStart, the drop timer about to time out
MidGame(p1, p2, its) ==
    /\ now = ClockStart
    /\ gameState = "PLAYING"
    /\ winner = 0
    /\ player = [i \in {1, 2} |-> IF i = 1 THEN p1 ELSE p2]
    /\ projectiles = << >>
    /\ items = its
    /\ platforms = createPlatforms
    /\ timerActive = TRUE
    /\ timerDue = ClockStart
    /\ vec = NoVector

\* the state GameWindow::GameWindow() leaves: initialize() then startGame()
Init ==
    /\ now = ClockStart
    /\ gameState = "PLAYING"
    /\ winner = 0
    /\ player = [i \in {1, 2} |->
                    IF i = 1 THEN Player(px(200), px(GROUND_LEVEL - PLAYER_HEIGHT), TRUE)
                    ELSE Player(px(1000), px(GROUND_LEVEL - PLAYER_HEIGHT), FALSE)]
    /\ projectiles = << >>
    /\ items = << >>
    /\ platforms = createPlatforms
    /\ timerActive = TRUE
    /\ timerDue = ClockStart + ITEM_DROP_INTERVAL
    /\ vec = NoVector

\* frames at the game timer's pace
MaxFrames == 2
FrameTimes(from) == {from + k * FRAME_MS : k \in 1..MaxFrames}


\* Spec: a fresh match in which player one has every key.  The frame
\* at ClockStart + ITEM_DROP_INTERVAL lets the drop timer time out.
Next ==
    Step(FrameTimes(ClockStart) \cup {ClockStart + ITEM_DROP_INTERVAL},
         {1} \X Keys, {"BANDAGE"}, {px(500)})
Spec == Init /\ [][Next]_vars

\* SpecMelee: the players face each other 40 px apart on the ground, fists only.
InitMelee ==
    \E h \in {<<100, 100>>, <<15, 15>>} :
        MidGame(Standing(500, TRUE, TRUE, h[1], Weapon("FIST")),
                Standing(540, FALSE, FALSE, h[2], Weapon("FIST")), << >>)
NextMelee ==
    Step(FrameTimes(ClockStart), {1, 2} \X {"FIRE", "CROUCH"}, {"WEAPON_KNIFE"},
         {px(1000)})
SpecMelee == InitMelee /\ [][NextMelee]_vars

\* SpecItems: as SpecMelee, with a bandage, a medkit and an adrenaline shot that
\* have been lying within player one's reach for 29 s; player one picks up,
\* player two punches.  Frames come one second apart.
MaxSeconds == 2
InitItems ==
    \E h \in {100, 80} :
        MidGame(Standing(500, TRUE, TRUE, h, Weapon("FIST")),
                Standing(540, FALSE, FALSE, 100, Weapon("FIST")),
                << Resting("BANDAGE", 475, ClockStart - 29000),
                   Resting("MEDKIT", 470, ClockStart - 29000),
                   Resting("ADRENALINE", 480, ClockStart - 29000) >>)
NextItems ==
    Step({ClockStart + k * 1000 : k \in 1..MaxSeconds},
         {<<1, "CROUCH">>, <<2, "FIRE">>}, {"WEAPON_KNIFE"}, {px(1000)})
SpecItems == InitItems /\ [][NextItems]_vars

\* SpecRanged: player one holds a partly used ball or rifle, player two, 10 px
\* in front of its muzzle, a sniper rifle with one round.  After the frames at
\* the timer's pace comes one when every cooldown has elapsed.
InitRanged ==
    \E w \in {Used("BALL", 1, ClockStart - BALL_COOLDOWN),
              Used("RIFLE", 2, ClockStart - RIFLE_COOLDOWN)} :
        MidGame(Standing(300, TRUE, TRUE, 100, w),
                Standing(350, FALSE, FALSE, 100,
                         Used("SNIPER", 1, ClockStart - SNIPER_COOLDOWN)), << >>)
NextRanged ==
    Step(FrameTimes(ClockStart) \cup {ClockStart + SNIPER_COOLDOWN},
         {<<1, "FIRE">>, <<2, "FIRE">>, <<1, "CROUCH">>}, {"WEAPON_BALL"}, {px(1000)})
SpecRanged == InitRanged /\ [][NextRanged]_vars

\* SpecPause: player one holds a ball or a rifle and nobody stands in the line
\* of fire; frames at the timer's pace, then again after a pause of
\* MAX_LIFETIME.
InitPause ==
    \E w \in {Weapon("BALL"), Weapon("RIFLE")} :
        MidGame(Standing(300, TRUE, TRUE, 100, w),
                Standing(1000, FALSE, FALSE, 100, Weapon("FIST")), << >>)
NextPause ==
    Step(FrameTimes(ClockStart) \cup FrameTimes(ClockStart + MAX_LIFETIME),
         {<<1, "FIRE">>, <<1, "CROUCH">>}, {"WEAPON_RIFLE"}, {px(1000)})
SpecPause == InitPause /\ [][NextPause]_vars

\* a player standing on platform k of createPlatforms, its terrain already
\* recorded by the previous frame's collision pass
OnPlatform(k, x, isPlayerOne, facingRight, weapon) ==
    [Player(px(x), createPlatforms[k].y - PH, isPlayerOne)
        EXCEPT !.isGrounded = TRUE, !.facingRight = facingRight, !.weapon = weapon,
               !.terrain = createPlatforms[k].type]

\* a player who picked up an adrenaline shot at clock reading t
Boosted(p, t) == applyAdrenaline(p, ADRENALINE_DURATION, t)

\* SpecPickup: a weapon item and a bandage 10 ms short of its lifetime lie
\* within player one's reach; player one holds a sniper rifle with one round
\* and picks up or fires at player two.
InitPickup ==
    \E type \in WeaponItemTypes :
        MidGame(Standing(500, TRUE, TRUE, 25, Used("SNIPER", 1, ClockStart - SNIPER_COOLDOWN)),
                Standing(540, FALSE, FALSE, 100, Weapon("FIST")),
                << Resting(type, 475, ClockStart),
                   Resting("BANDAGE", 470, ClockStart - ITEM_LIFETIME + 10) >>)
NextPickup ==
    Step(FrameTimes(ClockStart), {<<1, "CROUCH">>, <<1, "FIRE">>}, {"WEAPON_BALL"},
         {px(1000)})
SpecPickup == InitPickup /\ [][NextPickup]_vars

\* SpecTerrain: player one stands on the left ice platform or on the ground,
\* with or without adrenaline, and has every movement key.
InitTerrain ==
    \E k \in {1, 3}, boosted \in BOOLEAN :
        LET p == OnPlatform(k, 200, TRUE, TRUE, Weapon("FIST"))
        IN  MidGame(IF boosted THEN Boosted(p, ClockStart) ELSE p,
                    Standing(1000, FALSE, FALSE, 100, Weapon("FIST")), << >>)
NextTerrain ==
    Step(FrameTimes(ClockStart), {1} \X {"LEFT", "RIGHT", "JUMP", "CROUCH"},
         {"WEAPON_BALL"}, {px(1000)})
SpecTerrain == InitTerrain /\ [][NextTerrain]_vars

\* SpecGrass: both players stand on the central grass platform, 50 px apart;
\* player one crouches and gets up, player two punches or fires a rifle at it.
InitGrass ==
    \E w \in {Weapon("FIST"), Used("RIFLE", 2, ClockStart - RIFLE_COOLDOWN)} :
        MidGame(OnPlatform(2, 500, TRUE, TRUE, Weapon("FIST")),
                OnPlatform(2, 550, FALSE, FALSE, w), << >>)
NextGrass ==
    Step(FrameTimes(ClockStart), {<<1, "CROUCH">>, <<2, "FIRE">>}, {"WEAPON_BALL"},
         {px(1000)})
SpecGrass == InitGrass /\ [][NextGrass]_vars

\* v / scalar applied to the vector at hand
Divide(scalar) ==
    /\ vec' = [op |-> "div", v |-> vec.v, s |-> scalar, r |-> VectorDiv(vec.v, scalar)]
    /\ UNCHANGED <<now, gameState, winner, player, projectiles, items, platforms,
                   timerActive, timerDue>>

\* v.normalized() applied to the vector at hand
Normalize ==
    /\ vec' = [op |-> "normalized", v |-> vec.v, s |-> Zero, r |-> normalized(vec.v)]
    /\ UNCHANGED <<now, gameState, winner, player, projectiles, items, platforms,
                   timerActive, timerDue>>

\* SpecVector: the Vector2D operations on their own.  The vectors have
\* components that are whole or half numbers up to MaxCoord and a length that
\* is a fraction; the scalars are whole and half numbers, 0 among them.
MaxCoord == 4
Coords == {Frac(n, d) : n \in (-MaxCoord)..MaxCoord, d \in {1, 2}}
IsSquare(n) == \E r \in 0..n : r * r = n
VectorInputs ==
    {v \in {Vector2D(x, y) : x \in Coords, y \in Coords} :
        IsSquare(lengthSquared(v)[1]) /\ IsSquare(lengthSquared(v)[2])}
ScalarInputs == {Frac(n, d) : n \in {-3, -1, 0, 1, 2}, d \in {1, 2}}
InitVector ==
    /\ now = ClockStart
    /\ gameState = "PLAYING"
    /\ winner = 0
    /\ player = [i \in {1, 2} |->
                    IF i = 1 THEN Player(px(200), px(GROUND_LEVEL - PLAYER_HEIGHT), TRUE)
                    ELSE Player(px(1000), px(GROUND_LEVEL - PLAYER_HEIGHT), FALSE)]
    /\ projectiles = << >>
    /\ items = << >>
    /\ platforms = createPlatforms
    /\ timerActive = TRUE
    /\ timerDue = ClockStart + ITEM_DROP_INTERVAL
    /\ \E v \in VectorInputs : vec = [NoVector EXCEPT !.v = v]
NextVector ==
    \/ \E scalar \in ScalarInputs : Divide(scalar)
    \/ Normalize
SpecVector == InitVector /\ [][NextVector]_vars

\* SpecBrawl: both players stand on the central grass platform, player two,
\* with a fist or a knife, at the same place as player one or 50, 55 or 61 px
\* to its right and facing it, or 50 px to its right and facing away.  Player
\* one jumps, crouches and punches, player two attacks.
InitBrawl ==
    \E c \in {<<0, FALSE>>, <<50, FALSE>>, <<50, TRUE>>, <<55, FALSE>>, <<61, FALSE>>},
       type \in MeleeTypes :
        MidGame([OnPlatform(2, 500, TRUE, TRUE, Weapon("FIST")) EXCEPT !.hp = 30],
                [OnPlatform(2, 500 + c[1], FALSE, c[2], Weapon(type)) EXCEPT !.hp = 10],
                << >>)
NextBrawl ==
    Step(FrameTimes(ClockStart),
         {<<1, "CROUCH">>, <<1, "JUMP">>, <<1, "FIRE">>, <<2, "FIRE">>},
         {"WEAPON_BALL"}, {px(1000)})
SpecBrawl == InitBrawl /\ [][NextBrawl]_vars

\* SpecScan: the players stand 40 px apart on the ground among four items: a
\* bandage only player one reaches, a medkit and a knife both reach, and an
\* adrenaline shot only player two reaches; the timer drops a medkit out of
\* reach of both.  Both pick up, at full hp or below.
InitScan ==
    \E h \in {<<100, 100>>, <<80, 100>>, <<100, 60>>} :
        MidGame(Standing(500, TRUE, TRUE, h[1], Weapon("FIST")),
                Standing(540, FALSE, FALSE, h[2], Weapon("FIST")),
                << Resting("BANDAGE", 475, ClockStart),
                   Resting("MEDKIT", 520, ClockStart),
                   Resting("WEAPON_KNIFE", 530, ClockStart),
                   Resting("ADRENALINE", 590, ClockStart) >>)
NextScan ==
    Step(FrameTimes(ClockStart), {<<1, "CROUCH">>, <<2, "CROUCH">>}, {"MEDKIT"},
         {px(1000)})
SpecScan == InitScan /\ [][NextScan]_vars

\* SpecAdrenaline: player one, dead or alive, is 500 ms short of the end of an
\* adrenaline buff and was last healed 990 or 500 ms ago; a fresh adrenaline
\* shot lies in its reach.  A frame comes after FRAME_MS and then frames one
\* second apart; player one walks and picks up.
InitAdrenaline ==
    \E h \in {80, 98, 0}, healed \in {ClockStart - 990, ClockStart - 500} :
        MidGame([Boosted(Standing(500, TRUE, TRUE, h, Weapon("FIST")),
                         ClockStart + 500 - ADRENALINE_DURATION)
                    EXCEPT !.lastAdrenalineHeal = healed],
                Standing(1000, FALSE, FALSE, 100, Weapon("FIST")),
                << Resting("ADRENALINE", 475, ClockStart) >>)
NextAdrenaline ==
    Step({ClockStart + FRAME_MS} \cup {ClockStart + k * 1000 : k \in 1..MaxSeconds},
         {<<1, "CROUCH">>, <<1, "RIGHT">>}, {"WEAPON_BALL"}, {px(1000)})
SpecAdrenaline == InitAdrenaline /\ [][NextAdrenaline]_vars

\* SpecArc: player one, at x = 440 on the ground and facing left, throws balls
\* at player two, who stands against the left border or far to the right.  A
\* ball thrown at ClockStart and moved by a frame of 500 ms and one of 700 ms
\* comes down on the ground platform at x = 12.3, at the feet of a player
\* standing at the border.  The later frames let a pause outlast the ball's
\* lifetime.
ArcTimes == {ClockStart + 500, ClockStart + 1200, ClockStart + MAX_LIFETIME,
             ClockStart + MAX_LIFETIME + 700}
InitArc ==
    \E c \in {<<0, 100>>, <<0, 30>>, <<1000, 100>>} :
        MidGame(Standing(440, TRUE, FALSE, 100, Weapon("BALL")),
                Standing(c[1], FALSE, TRUE, c[2], Weapon("FIST")), << >>)
NextArc == Step(ArcTimes, {<<1, "FIRE">>, <<1, "CROUCH">>}, {"WEAPON_KNIFE"}, {px(1000)})
SpecArc == InitArc /\ [][NextArc]_vars

\* SpecGlide: player one, on the ground or on the left ice platform, with or
\* without adrenaline, presses direction keys before frame MaxFrames and releases them at any time; a frame comes every FRAME_MS until
\* GlideFrames of them have passed.
GlideFrames == 24
InitGlide ==
    \E ice \in BOOLEAN, boost \in BOOLEAN :
        LET p == IF ice THEN OnPlatform(3, 200, TRUE, TRUE, Weapon("FIST"))
                 ELSE Standing(600, TRUE, TRUE, 100, Weapon("FIST"))
        IN  MidGame(IF boost THEN Boosted(p, ClockStart) ELSE p,
                    Standing(1000, FALSE, FALSE, 100, Weapon("FIST")), << >>)
NextGlide ==
    \/ now < ClockStart + GlideFrames * FRAME_MS /\ GameLoop(FRAME_MS)
    \/ \E k \in {"LEFT", "RIGHT"} :
           now < ClockStart + MaxFrames * FRAME_MS /\ HandleKeyPress(1, k)
    \/ \E k \in {"LEFT", "RIGHT"} : HandleKeyRelease(1, k)
SpecGlide == InitGlide /\ [][NextGlide]_vars

\* SpecDose: player one, at hp 10, took an adrenaline shot 500 or 300 ms before
\* ClockStart and nothing else lies within reach; frames come 500 or 1000 ms
\* apart, with pauses, until a second after the buff has run out.
DoseFrames == {500, 1000}
InitDose ==
    \E ago \in {500, 300} :
        MidGame(Boosted(Standing(500, TRUE, TRUE, 10, Weapon("FIST")), ClockStart - ago),
                Standing(1000, FALSE, FALSE, 100, Weapon("FIST")), << >>)
NextDose ==
    \/ \E dt \in DoseFrames :
           now + dt <= ClockStart + ADRENALINE_DURATION + 1000 /\ GameLoop(dt)
    \/ HandleKeyPress(1, "CROUCH")
    \/ HandleKeyRelease(1, "CROUCH")
    \/ TogglePause
SpecDose == InitDose /\ [][NextDose]_vars

\* SpecBump: player one stands on the ground beside the central grass
\* platform, below it, or 10 px from the right border, and walks and jumps;
\* frames come 100 or 250 ms apart for BumpSpan ms, long enough to rise into
\* the platform from below, to walk into its side in mid-air and to fall back.
BumpSpan == 700
InitBump ==
    \E x \in {320, 500, 1150} :
        MidGame(Standing(x, TRUE, TRUE, 100, Weapon("FIST")),
                Standing(0, FALSE, TRUE, 100, Weapon("FIST")), << >>)
NextBump ==
    \/ \E dt \in {100, 250} : now + dt <= ClockStart + BumpSpan /\ GameLoop(dt)
    \/ \E k \in {"LEFT", "RIGHT", "JUMP"} : HandleKeyPress(1, k)
    \/ \E k \in {"LEFT", "RIGHT"} : HandleKeyRelease(1, k)
SpecBump == InitBump /\ [][NextBump]_vars

-----------------------------------------------------------------------------
(* Claims *)
Players == {1, 2}

\* C1: in every reachable state each player's hp is an integer from 0 to
\* PLAYER_MAX_HP, whatever punches, pickups and adrenaline heals came before.
HpInRange == \A i \in Players : player[i].hp \in 0..PLAYER_MAX_HP

\* C1 witness: punches have taken player one down to the floor of 0 while
\* player two was never hit.
HpAtFloor ==
    /\ player[1].hp = 0
    /\ player[2].hp = PLAYER_MAX_HP
    /\ items # << >>

\* the damage carried by the projectiles of prs not owned by `ownerId`
RECURSIVE DamageOfOthers(_, _, _)
DamageOfOthers(prs, ownerId, k) ==
    IF k > Len(prs) THEN 0
    ELSE (IF prs[k].ownerId # ownerId THEN prs[k].damage ELSE 0)
         + DamageOfOthers(prs, ownerId, k + 1)

\* C2: in a frame a player loses no more hp than the projectiles of the other
\* player carry; its own projectiles (ownerId 0 for player one, 1 for player
\* two) take nothing from it, even when they overlap its box.
OwnProjectileHarmless ==
    [][now' # now =>
         \A i \in Players :
             player'[i].hp >= player[i].hp - DamageOfOthers(projectiles, i - 1, 1)]_vars

\* C2 witness: a frame after the throw, player one's ball overlaps player one's
\* own box and is still flying, and player one has full hp.
OwnBallOverlapsThrower ==
    \E k \in 1..Len(projectiles) :
        /\ projectiles[k].ownerId = 0
        /\ projectiles[k].startTime < now
        /\ checkCircleRectCollision(projectiles[k].x, projectiles[k].y,
                                    projectiles[k].radius,
                                    player[1].x, player[1].y, PW, PH)
        /\ player[1].hp = PLAYER_MAX_HP

\* C3: whenever winner is not 0 the state is GAME_OVER, the winner has hp > 0
\* and the other player has hp 0; winner is 0 whenever both players have hp > 0.
WinnerIsSoleSurvivor ==
    /\ winner # 0 => /\ gameState = "GAME_OVER"
                     /\ winner \in Players
                     /\ player[winner].hp > 0
                     /\ player[Other(winner)].hp = 0
    /\ (player[1].hp > 0 /\ player[2].hp > 0) => winner = 0

\* C4: once the state is GAME_OVER every step other than a reset leaves it
\* GAME_OVER and leaves the winner, the players, the projectiles and the items
\* unchanged.
GameOverIsTerminal ==
    [][(gameState = "GAME_OVER" /\ ~ResetGame) =>
           /\ gameState' = "GAME_OVER"
           /\ UNCHANGED <<winner, player, projectiles, items>>]_vars

\* C5: an attack command that comes less than ATTACK_THROTTLE ms after the same
\* player's previous one changes no hp, adds no projectile and uses no ammo.
ThrottledAttackHasNoEffect ==
    [][\A i \in Players :
           (/\ gameState = "PLAYING"
            /\ HandleKeyPress(i, "FIRE")
            /\ now - player[i].lastAttackTime < ATTACK_THROTTLE) =>
               /\ \A j \in Players : /\ player'[j].hp = player[j].hp
                                     /\ player'[j].weapon.ammo = player[j].weapon.ammo
               /\ projectiles' = projectiles]_vars

\* C6: a step that adds projectiles adds exactly one, and its owner's ammo was
\* positive and drops by exactly 1; ammo changes in no other way while the
\* weapon is kept; ranged ammo stays between 0 and the initial count; at ammo 0
\* hasAmmo() and canAttack() are false at every clock reading and the ammo stays
\* 0; melee weapons keep ammo -1.
AmmoEconomy ==
    [][/\ \A i \in Players :
            LET w == player[i].weapon
                v == player'[i].weapon
                fired == /\ Len(projectiles') = Len(projectiles) + 1
                         /\ projectiles'[Len(projectiles')].ownerId = i - 1
                         /\ SubSeq(projectiles', 1, Len(projectiles)) = projectiles
            IN  /\ w.type \in MeleeTypes => w.ammo = -1
                /\ v.type \in MeleeTypes => v.ammo = -1
                /\ v.type \in RangedTypes => v.ammo \in 0..InitialAmmo(v.type)
                /\ w.ammo = 0 =>
                       /\ ~hasAmmo(w)
                       /\ \A t \in {now, now + getCooldown(w), now + MAX_LIFETIME} :
                              ~canAttack(w, t)
                       /\ v.type = w.type => v.ammo = 0
                /\ fired => /\ w.type \in RangedTypes /\ w.ammo > 0
                            /\ v.type = w.type /\ v.ammo = w.ammo - 1
                /\ (v.type = w.type /\ v.ammo # w.ammo) => (fired /\ v.ammo = w.ammo - 1)
       /\ Len(projectiles') <= Len(projectiles) + 1]_vars

\* C6 witness: a ranged weapon fired empty whose cooldown has elapsed since.
EmptyAfterCooldown ==
    \E i \in Players :
        /\ player[i].weapon.type \in RangedTypes
        /\ player[i].weapon.ammo = 0
        /\ player[i].weapon.lastAttackTime >= ClockStart
        /\ now - player[i].weapon.lastAttackTime >= getCooldown(player[i].weapon)

\* item k is the one a pickup scan by p reaches first
FirstInReach(p, k) ==
    /\ ItemIsValid(items[k], now) /\ InPickupRange(p, items[k])
    /\ \A j \in 1..(k - 1) : ~(ItemIsValid(items[j], now) /\ InPickupRange(p, items[j]))

\* C7: on a crouch key press at full hp the hp and every bandage and medkit
\* stay as they are; below full hp, when the item the scan reaches first is a
\* bandage or a medkit, the hp becomes min(PLAYER_MAX_HP, hp + amount), that
\* item becomes invalid without moving and the other items stay as they are.
HealingPickupRule ==
    [][\A i \in Players :
           (gameState = "PLAYING" /\ HandleKeyPress(i, "CROUCH")) =>
               \A k \in 1..Len(items) :
                   items[k].type \in {"BANDAGE", "MEDKIT"} =>
                       /\ player[i].hp = PLAYER_MAX_HP =>
                              /\ player'[i].hp = player[i].hp
                              /\ items'[k] = items[k]
                       /\ (player[i].hp < PLAYER_MAX_HP /\ FirstInReach(player[i], k)) =>
                              /\ player'[i].hp =
                                     Min(PLAYER_MAX_HP, player[i].hp + HealAmount(items[k].type))
                              /\ items' = [items EXCEPT ![k].isValid = FALSE]]_vars

\* C7 witness: the bandage was used up and brought player one to full hp, and
\* a later pickup at full hp took the adrenaline and left the medkit valid.
BandageUsedMedkitLeft ==
    /\ Len(items) = 3
    /\ ~items[1].isValid /\ items[2].isValid /\ ~items[3].isValid
    /\ player[1].hp = PLAYER_MAX_HP

\* C8 as claimed: a crouching player has no movement flag set and horizontal
\* velocity 0.
CrouchingNeverMoving ==
    \A i \in Players :
        player[i].isCrouching =>
            /\ ~player[i].isMovingLeft /\ ~player[i].isMovingRight
            /\ player[i].vx = 0

\* C8 amended: a crouching player has horizontal velocity 0, and as long as it
\* stays crouching its horizontal position does not change and no movement flag
\* gets set.
CrouchingStandsStill ==
    [][\A i \in Players :
           /\ player[i].isCrouching => player[i].vx = 0
           /\ player'[i].isCrouching => player'[i].vx = 0
           /\ (player[i].isCrouching /\ player'[i].isCrouching) =>
                  /\ player'[i].x = player[i].x
                  /\ player'[i].isMovingLeft => player[i].isMovingLeft
                  /\ player'[i].isMovingRight => player[i].isMovingRight]_vars

\* C8 witness: player one walked right, crouched with the movement flag still
\* set, and a later frame left it at rest.
CrouchedWhileWalking ==
    /\ player[1].isCrouching /\ player[1].isMovingRight
    /\ player[1].x > px(200)
    /\ now = ClockStart + ITEM_DROP_INTERVAL

\* C9 as claimed: no projectile in the list is older than MAX_LIFETIME.
ProjectileGoneByLifetime ==
    \A k \in 1..Len(projectiles) : now - projectiles[k].startTime <= MAX_LIFETIME

\* C9 amended: right after every frame processed in the PLAYING state no
\* projectile in the list is older than MAX_LIFETIME.
ProjectileCulledByPlayingFrame ==
    [][(gameState = "PLAYING" /\ now' # now) =>
           \A k \in 1..Len(projectiles') :
               now' - projectiles'[k].startTime <= MAX_LIFETIME]_vars

\* C9 witness: player one fired more than MAX_LIFETIME ago, a frame was
\* processed in the PLAYING state since, and the list is empty.
OldProjectileGone ==
    /\ gameState = "PLAYING"
    /\ now = ClockStart + MAX_LIFETIME + MaxFrames * FRAME_MS
    /\ player[1].weapon.type \in RangedTypes
    /\ player[1].weapon.ammo = InitialAmmo(player[1].weapon.type) - 1
    /\ player[1].weapon.lastAttackTime = ClockStart
    /\ projectiles = << >>

\* C10 as claimed: no item in the list is older than ITEM_LIFETIME.
ItemGoneByLifetime ==
    \A k \in 1..Len(items) : now - items[k].spawnTime <= ITEM_LIFETIME

\* C10 amended: right after every frame processed in the PLAYING state every
\* item in the list is younger than ITEM_LIFETIME.
ItemCulledByPlayingFrame ==
    [][(gameState = "PLAYING" /\ now' # now) =>
           \A k \in 1..Len(items') : now' - items'[k].spawnTime < ITEM_LIFETIME]_vars

\* C10 witness: the three items reached ITEM_LIFETIME untouched and the frame
\* at that clock reading removed them.
OldItemsGone ==
    /\ gameState = "PLAYING"
    /\ now = ClockStart + 1000
    /\ items = << >>
    /\ timerDue = ClockStart
    /\ player[1].hp = 80 /\ ~player[1].hasAdrenaline

\* C11: a crouch key press either picks nothing up or consumes exactly one item
\* that is valid and in reach; an item that is invalid (consumed, or past its
\* lifetime) stays as it is until a frame; and right after every frame processed
\* in the PLAYING state every item in the list is valid.
InvalidItemIsDead ==
    [][/\ \A i \in Players :
              (gameState = "PLAYING" /\ HandleKeyPress(i, "CROUCH")) =>
                  \/ /\ items' = items
                     /\ player'[i] = crouch(player[i])
                  \/ \E k \in 1..Len(items) :
                         /\ ItemIsValid(items[k], now)
                         /\ InPickupRange(player[i], items[k])
                         /\ items' = [items EXCEPT ![k].isValid = FALSE]
       /\ (now' = now /\ Len(items') >= Len(items)) =>
              \A k \in 1..Len(items) :
                  ~ItemIsValid(items[k], now) => items'[k] = items[k]
       /\ (gameState = "PLAYING" /\ now' # now) =>
              \A k \in 1..Len(items') :
                  /\ items'[k].isValid
                  /\ now' - items'[k].spawnTime < ITEM_LIFETIME]_vars

\* C11 witness: player one took the knife, the bandage ran out of lifetime
\* unused, and the first frame removed both from the list.
TakenAndExpiredPurged ==
    /\ gameState = "PLAYING"
    /\ now = ClockStart + FRAME_MS
    /\ player[1].weapon.type = "KNIFE"
    /\ player[1].hp = 25
    /\ \A k \in 1..Len(items) : items[k].type = "WEAPON_BALL"

\* the weapon type a weapon item stands for
WeaponOfItem(type) ==
    CASE type = "WEAPON_KNIFE" -> "KNIFE"
      [] type = "WEAPON_BALL" -> "BALL"
      [] type = "WEAPON_RIFLE" -> "RIFLE"
      [] type = "WEAPON_SNIPER" -> "SNIPER"

\* item k is the one a pickup scan by p succeeds on, if it is a weapon item:
\* every item before it that is valid and in reach is a healing item refused
\* at full hp
ScanReaches(p, k) ==
    /\ ItemIsValid(items[k], now) /\ InPickupRange(p, items[k])
    /\ \A j \in 1..(k - 1) :
           (ItemIsValid(items[j], now) /\ InPickupRange(p, items[j])) =>
               (items[j].type \in {"BANDAGE", "MEDKIT"} /\ p.hp = PLAYER_MAX_HP)

\* C12: each player always holds one weapon of a known type; after a reset it
\* is a fresh fist; a crouch key press whose scan reaches a weapon item equips
\* a fresh weapon of the item's type and consumes the item; the equipped type
\* changes in no other step.
OneWeaponEquipped ==
    [][\A i \in Players :
           LET w == player[i].weapon
               v == player'[i].weapon
               taken(k) == /\ gameState = "PLAYING"
                           /\ HandleKeyPress(i, "CROUCH")
                           /\ items[k].type \in WeaponItemTypes
                           /\ ScanReaches(player[i], k)
           IN  /\ w.type \in WeaponTypes /\ v.type \in WeaponTypes
               /\ ResetGame => v = [type |-> "FIST", ammo |-> -1, lastAttackTime |-> 0]
               /\ \A k \in 1..Len(items) :
                      taken(k) =>
                          /\ v.type = WeaponOfItem(items[k].type)
                          /\ v.ammo = InitialAmmo(v.type)
                          /\ v.lastAttackTime = 0
                          /\ ~items'[k].isValid
               /\ v.type # w.type =>
                      \/ ResetGame
                      \/ \E k \in 1..Len(items) : taken(k)]_vars

\* C12 witness: player one fired its last sniper round at player two and then
\* swapped the empty rifle for the ball lying next to it.
SwappedEmptySniperForBall ==
    /\ player[1].weapon.type = "BALL"
    /\ player[1].weapon.ammo = BALL_COUNT
    /\ player[2].hp = PLAYER_MAX_HP - SNIPER_DAMAGE
    /\ player[2].weapon.type = "FIST"

\* C13: while the state is PAUSED or GAME_OVER no key press and no key release
\* of either player changes anything: no such command has a step that changes
\* a variable.
KeysIgnoredUnlessPlaying ==
    gameState # "PLAYING" =>
        \A i \in Players :
            /\ \A k \in Keys : ~ENABLED (HandleKeyPress(i, k) /\ vars' # vars)
            /\ \A k \in ReleaseKeys : ~ENABLED (HandleKeyRelease(i, k) /\ vars' # vars)

\* C13 witness: the game is paused while player one, below full hp, has the
\* bandage in reach and player two has player one in punching range.
PausedWithinReach ==
    /\ gameState = "PAUSED"
    /\ player[1].hp \in 1..(PLAYER_MAX_HP - 1)
    /\ Len(items) >= 1 /\ FirstInReach(player[1], 1)
    /\ MeleeAttack(player[2], player[1], now) # player[1]

\* the clock advances the frames may take
FrameLengths == {FRAME_MS, MAX_LIFETIME}

\* C14: while the state is PAUSED or GAME_OVER a frame of any length changes
\* nothing but the clock: no player, projectile or item, neither state nor
\* winner, and nothing is removed.
FrameIdleUnlessPlaying ==
    gameState # "PLAYING" =>
        \A dt \in FrameLengths :
            ~ENABLED (/\ GameLoop(dt)
                      /\ <<gameState, winner, player, projectiles, items, platforms,
                           timerActive, timerDue>>'
                           # <<gameState, winner, player, projectiles, items, platforms,
                               timerActive, timerDue>>)

\* C14 witness: the game is paused, a frame has passed since the pause began,
\* and the items, by now past their lifetime, are still in the list.
PausedItemsKept ==
    /\ gameState = "PAUSED"
    /\ Len(items) = 3
    /\ \A k \in 1..3 : now - items[k].spawnTime > ITEM_LIFETIME

\* what is left, at the current clock reading, of every running time: the
\* lifetimes of the items and projectiles, each player's adrenaline duration
\* and time since the last adrenaline heal, and each weapon's cooldown
RemainingTimes ==
    [items |-> [k \in 1..Len(items) |-> ITEM_LIFETIME - (now - items[k].spawnTime)],
     projectiles |->
         [k \in 1..Len(projectiles) |-> MAX_LIFETIME - (now - projectiles[k].startTime)],
     adrenaline |->
         [i \in Players |->
             IF player[i].hasAdrenaline
             THEN <<player[i].adrenalineEndTime - now, now - player[i].lastAdrenalineHeal>>
             ELSE <<0, 0>>],
     cooldown |->
         [i \in Players |->
             Max(0, getCooldown(player[i].weapon)
                    - (now - player[i].weapon.lastAttackTime))]]

\* C15: from a PAUSED state every step that stays paused or resumes leaves the
\* remaining lifetimes, adrenaline times and cooldowns as they were when the
\* pause began, however long the pause lasts.
PauseKeepsRemainingTimes ==
    [][(gameState = "PAUSED" /\ gameState' \in {"PAUSED", "PLAYING"} /\ ~ResetGame) =>
           RemainingTimes' = RemainingTimes]_vars

\* C16: togglePause turns PLAYING into PAUSED with the drop timer stopped and
\* PAUSED into PLAYING with the drop timer started, so that two calls in a row
\* end in the state they began in; in GAME_OVER it leaves state, winner and
\* timer as they are; it never changes a player, a projectile, an item or
\* the winner.
TogglePauseOnlyToggles ==
    [][TogglePause =>
           /\ gameState = "PLAYING" => (gameState' = "PAUSED" /\ ~timerActive')
           /\ gameState = "PAUSED" => (gameState' = "PLAYING" /\ timerActive')
           /\ gameState = "GAME_OVER" => UNCHANGED <<gameState, timerActive, timerDue>>
           /\ UNCHANGED <<now, winner, player, projectiles, items, platforms>>]_vars

\* C16 witness: the game was paused and resumed a frame later, which left the
\* state PLAYING and the drop timer running anew.
ResumedAfterPause ==
    /\ gameState = "PLAYING"
    /\ timerActive
    /\ now > ClockStart
    /\ timerDue = now + ITEM_DROP_INTERVAL
    /\ Len(items) = 3
    /\ \A k \in 1..3 : now - items[k].spawnTime >= ITEM_LIFETIME

\* C17: whatever the state before, a reset leaves two players at (200, 690) and
\* (1000, 690) with hp 100, a fresh fist, no adrenaline, no movement or crouch
\* flag and no velocity, empty projectile and item lists, winner 0, the state
\* PLAYING, the drop timer running for a full interval, and 7 platforms.
ResetGivesFreshMatch ==
    [][ResetGame =>
           /\ \A i \in Players :
                  /\ player'[i].x = (IF i = 1 THEN 200000 ELSE 1000000)
                  /\ player'[i].y = 690000
                  /\ player'[i].vx = 0 /\ player'[i].vy = 0
                  /\ player'[i].hp = 100
                  /\ player'[i].weapon = [type |-> "FIST", ammo |-> -1, lastAttackTime |-> 0]
                  /\ ~player'[i].hasAdrenaline
                  /\ ~player'[i].isMovingLeft /\ ~player'[i].isMovingRight
                  /\ ~player'[i].isCrouching
                  /\ player'[i].isPlayerOne = (i = 1)
           /\ projectiles' = << >>
           /\ items' = << >>
           /\ winner' = 0
           /\ gameState' = "PLAYING"
           /\ timerActive' /\ timerDue' = now + ITEM_DROP_INTERVAL
           /\ Len(platforms') = 7]_vars

\* C17 witness: the match was reset two seconds in, after the items had come
\* and gone: the players are back at their start positions.
FreshAfterReset ==
    /\ player[1].x = px(200) /\ player[2].x = px(1000)
    /\ player[1].hp = PLAYER_MAX_HP /\ ~player[1].hasAdrenaline
    /\ items = << >>
    /\ gameState = "PLAYING" /\ winner = 0
    /\ now = ClockStart + 2000
    /\ timerDue = now + ITEM_DROP_INTERVAL

\* the speed the claim gives, in 1/1000 px per second
ClaimedSpeed(p) ==
    CASE p.terrain = "ICE" /\ p.hasAdrenaline -> 585000
      [] p.terrain = "ICE" /\ ~p.hasAdrenaline -> 450000
      [] p.terrain # "ICE" /\ p.hasAdrenaline -> 390000
      [] OTHER -> 300000

\* C18: a frame in the PLAYING state leaves a living, non-crouching player
\* that has a direction flag set with horizontal velocity -speed (left flag) or
\* +speed (right flag only), speed being 300, 450 on ice, 390 with adrenaline,
\* 585 with both, by its terrain and adrenaline before the frame; the velocity
\* is 0 instead only when the frame did not let it travel that far.
MovementSpeed ==
    [][(gameState = "PLAYING" /\ now' # now) =>
           \A i \in Players :
               LET p == player[i]
                   q == player'[i]
                   v == IF p.isMovingLeft THEN -ClaimedSpeed(p) ELSE ClaimedSpeed(p)
               IN  (p.hp > 0 /\ ~p.isCrouching /\ (p.isMovingLeft \/ p.isMovingRight)) =>
                       \/ q.vx = v
                       \/ q.vx = 0 /\ q.x # p.x + MulMs(v, now' - now)]_vars

\* C18 witness: player one, on the ice platform without adrenaline, was told to
\* move right and the next frame gave it 450 px/s.
IceSpeed ==
    /\ player[1].terrain = "ICE"
    /\ ~player[1].hasAdrenaline
    /\ player[1].isMovingRight /\ ~player[1].isMovingLeft
    /\ player[1].vx = 450000
    /\ player[1].x > px(200)

\* stealth as the claim defines it
Stealthed(p) == p.isCrouching /\ p.terrain = "GRASS"

\* C19: isInvisible() holds exactly for a crouching player on grass; no step
\* reduces the hp of a player that is stealthed, be it a punch or a frame with
\* projectiles; and a projectile of the opponent that a frame moves onto a
\* stealthed player, without its lifetime ending or a platform stopping it,
\* is still in the list after the frame.
StealthImmunity ==
    [][\A i \in Players :
           /\ isInvisible(player[i]) <=> Stealthed(player[i])
           /\ Stealthed(player[i]) =>
                  /\ player'[i].hp >= player[i].hp
                  /\ (gameState = "PLAYING" /\ now' # now) =>
                         \A k \in 1..Len(projectiles) :
                             LET u == ProjectileUpdate(projectiles[k], now' - now)
                             IN  (/\ u.ownerId # i - 1
                                  /\ ProjectileIsValid(u, now')
                                  /\ ~HitsPlatform(u)
                                  /\ checkCircleRectCollision(u.x, u.y, u.radius,
                                         player'[i].x, player'[i].y, PW, PH)) =>
                                     \E j \in 1..Len(projectiles') : projectiles'[j] = u]_vars

\* C19 witness: player one crouches on the grass platform at full hp while a
\* bullet of player two, fired a frame ago, is inside its box.
BulletInsideStealthed ==
    /\ Stealthed(player[1])
    /\ player[1].hp = PLAYER_MAX_HP
    /\ \E k \in 1..Len(projectiles) :
           /\ projectiles[k].ownerId = 1
           /\ projectiles[k].startTime < now
           /\ checkCircleRectCollision(projectiles[k].x, projectiles[k].y,
                                       projectiles[k].radius,
                                       player[1].x, player[1].y, PW, PH)

\* C20: a frame processed in the PLAYING state that ends with a player at hp 0
\* ends with the state GAME_OVER, the other player as the winner and the drop
\* timer stopped.
KnockoutEndsMatch ==
    [][(gameState = "PLAYING" /\ now' # now) =>
           \A i \in Players :
               player'[i].hp = 0 =>
                   /\ gameState' = "GAME_OVER"
                   /\ winner' = Other(i)
                   /\ ~timerActive']_vars

\* a * b = c for fractions a, b and c
FracProductIs(a, b, c) == a[1] * b[1] * c[2] = c[1] * a[2] * b[2]

\* C21: v / 0 is (0, 0) for every v; for every scalar s other than 0 the
\* components of v / s, multiplied by s, give back those of v; and normalized()
\* of the zero vector is (0, 0).
DegenerateVectorOps ==
    /\ (vec.op = "div" /\ vec.s = <<0, 1>>) => vec.r = [x |-> <<0, 1>>, y |-> <<0, 1>>]
    /\ (vec.op = "div" /\ vec.s # <<0, 1>>) =>
           /\ FracProductIs(vec.r.x, vec.s, vec.v.x)
           /\ FracProductIs(vec.r.y, vec.s, vec.v.y)
           /\ vec.r.x[2] > 0 /\ vec.r.y[2] > 0
    /\ (vec.op = "normalized" /\ vec.v = [x |-> <<0, 1>>, y |-> <<0, 1>>]) =>
           vec.r = [x |-> <<0, 1>>, y |-> <<0, 1>>]

\* C21 witness: the vector (3, -4) has been divided by 0.
NonZeroDividedByZero ==
    /\ vec.op = "div"
    /\ vec.v = [x |-> <<3, 1>>, y |-> <<-4, 1>>]
    /\ vec.s = <<0, 1>>

\* C22: a melee hit that takes hp from the opponent restarts the cooldown of
\* the fist or knife that dealt it, and a melee hit takes hp only when that
\* weapon's cooldown has elapsed since its previous hit.
MeleeHitRestartsCooldown ==
    [][\A i \in Players :
           (/\ gameState = "PLAYING"
            /\ HandleKeyPress(i, "FIRE")
            /\ player[i].weapon.type \in MeleeTypes
            /\ player'[Other(i)].hp < player[Other(i)].hp) =>
               /\ now - player[i].weapon.lastAttackTime >= getCooldown(player[i].weapon)
               /\ player'[i].weapon.lastAttackTime = now]_vars

\* C23: a fire key press of a player holding a fist or a knife leaves the
\* opponent with max(0, hp - damage), damage 15 or 25, when the two are at
\* most 50 or 60 px apart, the attacker faces the opponent (strictly to its
\* right when facing right, strictly to its left otherwise), the opponent is
\* not stealthed and the weapon can attack; otherwise it leaves the opponent's
\* hp as it is.  Either way it adds no projectile and leaves the attacker's hp
\* and everything else about the opponent as it is.
MeleeResolution ==
    [][\A i \in Players :
           (/\ gameState = "PLAYING"
            /\ HandleKeyPress(i, "FIRE")
            /\ player[i].weapon.type \in {"FIST", "KNIFE"}) =>
               LET a == player[i]
                   d == player[Other(i)]
                   damage == IF a.weapon.type = "FIST" THEN 15 ELSE 25
                   range == IF a.weapon.type = "FIST" THEN 50000 ELSE 60000
                   faces == IF a.facingRight THEN d.x > a.x ELSE d.x < a.x
                   ready == /\ a.weapon.ammo # 0
                            /\ now - a.weapon.lastAttackTime >=
                                   (IF a.weapon.type = "FIST" THEN 800 ELSE 600)
                   lands == /\ LengthLeq(a.x - d.x, a.y - d.y, range)
                            /\ faces
                            /\ ~(d.isCrouching /\ d.terrain = "GRASS")
                            /\ ready
               IN  /\ player'[Other(i)] =
                          [d EXCEPT !.hp = IF lands THEN Max(0, d.hp - damage) ELSE d.hp]
                   /\ player'[i].hp = a.hp
                   /\ projectiles' = projectiles]_vars

\* C23 witness: two knife hits of player two have taken player one from 30 to
\* 5 and then to the floor of 0, while player one, in the air, never hit back.
KnifeTookTheRest ==
    /\ player[2].weapon.type = "KNIFE"
    /\ player[1].hp = 0
    /\ player[2].hp = 10
    /\ ~player[1].isGrounded

\* the cooldown the claim gives each ranged weapon, ms
ClaimedCooldown(type) ==
    CASE type = "BALL" -> 1000
      [] type = "RIFLE" -> 150
      [] type = "SNIPER" -> 2000

\* C24: a fire key press with a ball, rifle or sniper rifle that last fired
\* less than its cooldown ago adds no projectile and leaves the weapon, ammo
\* and cooldown clock included, as it is; a step that adds a projectile of a
\* player comes at least the cooldown after that weapon's previous shot and
\* sets the weapon's cooldown clock and the projectile's start to the current
\* clock reading; and the cooldown clock of a weapon changes in no other way,
\* so that two projectiles of one weapon are at least its cooldown apart.
RangedCooldown ==
    [][\A i \in Players :
           LET w == player[i].weapon
               v == player'[i].weapon
               fired == /\ Len(projectiles') = Len(projectiles) + 1
                        /\ projectiles'[Len(projectiles')].ownerId = i - 1
           IN  w.type \in {"BALL", "RIFLE", "SNIPER"} =>
                   /\ (/\ gameState = "PLAYING"
                       /\ HandleKeyPress(i, "FIRE")
                       /\ now - w.lastAttackTime < ClaimedCooldown(w.type)) =>
                          (projectiles' = projectiles /\ v = w)
                   /\ fired =>
                          /\ now - w.lastAttackTime >= ClaimedCooldown(w.type)
                          /\ v.lastAttackTime = now
                          /\ projectiles'[Len(projectiles')].startTime = now
                   /\ (v.type = w.type /\ v.lastAttackTime # w.lastAttackTime) =>
                          (fired \/ v = [type |-> w.type, ammo |-> InitialAmmo(w.type),
                                         lastAttackTime |-> 0])]_vars

\* C24 witness: player one's rifle fired its two rounds, the second one at the
\* frame that came SNIPER_COOLDOWN after the start, with the fire key pressed
\* in between to no effect.
SecondShotAfterCooldown ==
    /\ player[1].weapon.type = "RIFLE"
    /\ player[1].weapon.ammo = 0
    /\ player[1].weapon.lastAttackTime = ClockStart + SNIPER_COOLDOWN

\* C25: the drop timer is running exactly when the state is PLAYING, after
\* every pause, resume, frame, reset and start; and no step taken in the
\* PAUSED or GAME_OVER state adds an item to the list.
TimerRunsIffPlaying ==
    [][/\ timerActive <=> gameState = "PLAYING"
       /\ timerActive' <=> gameState' = "PLAYING"
       /\ (gameState # "PLAYING" /\ ~ResetGame) => Len(items') <= Len(items)]_vars

\* C25 witness: the frame that found player one at hp 0 ended the match and
\* stopped the timer, which had dropped a knife before.
TimerStoppedAtGameOver ==
    /\ gameState = "GAME_OVER"
    /\ winner = 2
    /\ ~timerActive
    /\ \E k \in 1..Len(items) : items[k].type = "WEAPON_KNIFE"

\* C26: a crouch key press of player i consumes the first item of the list
\* that is valid, overlaps the player's box grown by 30 px on every side, and
\* is not a bandage or medkit offered to a player at full hp; it changes
\* nothing else in the list, so at most one item, and none at all when there
\* is no such item; and it leaves the other player as it is.
OnePickupPerCommand ==
    [][\A i \in Players :
           (gameState = "PLAYING" /\ HandleKeyPress(i, "CROUCH")) =>
               LET p == player[i]
                   taken(k) ==
                       /\ items[k].isValid /\ now - items[k].spawnTime < 30000
                       /\ items[k].x < p.x + 70000
                       /\ items[k].x + ItemWidth(items[k].type) > p.x - 30000
                       /\ items[k].y < p.y + 90000
                       /\ items[k].y + ItemHeight(items[k].type) > p.y - 30000
                       /\ items[k].type \in {"BANDAGE", "MEDKIT"} => p.hp < 100
                   first(k) == taken(k) /\ \A j \in 1..(k - 1) : ~taken(j)
               IN  /\ \A k \in 1..Len(items) :
                          first(k) => items' = [items EXCEPT ![k].isValid = FALSE]
                   /\ (\A k \in 1..Len(items) : ~taken(k)) => items' = items
                   /\ player'[Other(i)] = player[Other(i)]]_vars

\* C26 witness: player two, at full hp, passed over the medkit and took the
\* knife, and player one, below full hp, took the bandage; the medkit, the
\* adrenaline shot and the medkit out of reach are untouched.
SkippedMedkitTookKnife ==
    /\ Len(items) = 5
    /\ player[2].weapon.type = "KNIFE" /\ player[2].hp = PLAYER_MAX_HP
    /\ player[1].hp = PLAYER_MAX_HP /\ player[1].weapon.type = "FIST"
    /\ ~items[1].isValid /\ items[2].isValid /\ ~items[3].isValid
    /\ items[4].isValid /\ items[5].isValid

\* C27: a frame in the PLAYING state leaves every player that was alive with
\* the label CROUCHING if its crouch flag is set, else JUMPING if its update
\* left it off the ground, else MOVING if a movement flag is set, else
\* STANDING; never with the label ATTACKING that a fire key press gives.
StateLabelRule ==
    [][(gameState = "PLAYING" /\ now' # now) =>
           \A i \in Players :
               player[i].hp > 0 =>
                   LET q == player'[i]
                       grounded == updatePhysics(player[i], now' - now).isGrounded
                   IN  /\ q.state = (IF q.isCrouching THEN "CROUCHING"
                                     ELSE IF ~grounded THEN "JUMPING"
                                     ELSE IF q.isMovingLeft \/ q.isMovingRight THEN "MOVING"
                                     ELSE "STANDING")
                       /\ q.state # "ATTACKING"
                       /\ q.isCrouching = player[i].isCrouching
                       /\ q.isMovingLeft = player[i].isMovingLeft
                       /\ q.isMovingRight = player[i].isMovingRight]_vars

\* C27 witness: player one pressed fire at the start, which labelled it
\* ATTACKING, and jumped; a frame later its label is JUMPING.
AttackLabelGone ==
    /\ player[1].lastAttackTime = ClockStart
    /\ now > ClockStart
    /\ player[1].state = "JUMPING"
    /\ player[1].vy < 0

\* C28: a jump key press gives a player that is grounded and not crouching
\* the vertical velocity -500 px/s and takes it off the ground, and changes
\* nothing about any other player; a crouch key press sets the crouch flag and
\* zeroes the horizontal velocity of a grounded player and changes neither for
\* an airborne one, and never touches position, vertical velocity, grounded
\* flag, movement flags or facing; and while the crouch flag is set the left,
\* right and jump keys change nothing.
CommandPreconditions ==
    [][\A i \in Players :
           LET p == player[i]
               q == player'[i]
           IN  gameState = "PLAYING" =>
                   /\ HandleKeyPress(i, "JUMP") =>
                          q = (IF p.isGrounded /\ ~p.isCrouching
                               THEN [p EXCEPT !.vy = -500000, !.isGrounded = FALSE]
                               ELSE p)
                   /\ HandleKeyPress(i, "CROUCH") =>
                          /\ p.isGrounded => (q.isCrouching /\ q.vx = 0)
                          /\ ~p.isGrounded => (q.isCrouching = p.isCrouching /\ q.vx = p.vx)
                          /\ <<q.x, q.y, q.vy, q.isGrounded, q.isMovingLeft, q.isMovingRight,
                               q.facingRight>>
                               = <<p.x, p.y, p.vy, p.isGrounded, p.isMovingLeft,
                                   p.isMovingRight, p.facingRight>>
                   /\ p.isCrouching =>
                          \A k \in {"LEFT", "RIGHT", "JUMP"} : HandleKeyPress(i, k) => q = p]_vars

\* C28 witness: player one is in the air on its way up from the ice platform,
\* a frame after its jump.
RisingFromJump ==
    /\ ~player[1].isGrounded
    /\ player[1].vy < 0
    /\ player[1].y < createPlatforms[3].y - PH
    /\ now > ClockStart

\* C29: a player that is not grounded has the terrain GROUND and is not
\* invisible; and a frame in the PLAYING state gives a living player that was
\* not grounded and has a movement flag set the horizontal speed 300 px/s, or
\* 390 with adrenaline, never an ice speed (0 when the window border stops it).
AirborneOnPlainGround ==
    [][\A i \in Players :
           ~player[i].isGrounded =>
               /\ player[i].terrain = "GROUND"
               /\ ~isInvisible(player[i])
               /\ (/\ gameState = "PLAYING" /\ now' # now
                   /\ player[i].hp > 0 /\ ~player[i].isCrouching
                   /\ (player[i].isMovingLeft \/ player[i].isMovingRight)) =>
                      Abs(player'[i].vx) \in {0, 300000, 390000}]_vars

\* the adrenaline fields of a player
Buff(p) == <<p.hasAdrenaline, p.adrenalineEndTime, p.lastAdrenalineHeal>>

\* C30: a frame in the PLAYING state that reaches clock reading t acts on a
\* living player with the buff as follows: at t >= end the buff goes without
\* a heal; else at t - checkpoint >= 1000 the player gains 5 hp (up to 100) and
\* the checkpoint becomes t; else nothing changes.  A dead player or one
\* without the buff gets no heal.  The frame moves a walking player at 390 or
\* 585 px/s with the buff it had before the frame and at 300 or 450 without.
\* Picking up an adrenaline shot sets end = now + 10000 and checkpoint = now,
\* and the buff changes in no other step but a reset.
AdrenalineTiming ==
    [][\A i \in Players :
           LET p == player[i]
               q == player'[i]
               t == now'
               frame == gameState = "PLAYING" /\ now' # now
               shot == \E k \in 1..Len(items) :
                           /\ Len(items') = Len(items)
                           /\ items[k].type = "ADRENALINE"
                           /\ items[k].isValid /\ ~items'[k].isValid
           IN  /\ (frame /\ p.hp > 0 /\ p.hasAdrenaline /\ projectiles = << >>) =>
                      IF t >= p.adrenalineEndTime
                      THEN q.hp = p.hp /\ ~q.hasAdrenaline
                      ELSE IF t - p.lastAdrenalineHeal >= 1000
                      THEN /\ q.hp = Min(100, p.hp + 5)
                           /\ Buff(q) = <<TRUE, p.adrenalineEndTime, t>>
                      ELSE q.hp = p.hp /\ Buff(q) = Buff(p)
               /\ (frame /\ ~(p.hp > 0 /\ p.hasAdrenaline)) =>
                      (q.hp <= p.hp /\ Buff(q) = Buff(p))
               /\ (frame /\ p.hp > 0 /\ ~p.isCrouching
                         /\ (p.isMovingLeft \/ p.isMovingRight)) =>
                      Abs(q.vx) \in (IF p.hasAdrenaline THEN {0, 390000, 585000}
                                     ELSE {0, 300000, 450000})
               /\ (gameState = "PLAYING" /\ HandleKeyPress(i, "CROUCH") /\ shot) =>
                      Buff(q) = <<TRUE, now + 10000, now>>
               /\ Buff(q) # Buff(p) =>
                      \/ frame
                      \/ ResetGame
                      \/ gameState = "PLAYING" /\ HandleKeyPress(i, "CROUCH") /\ shot]_vars

\* C30 witness: player one was healed once, at the first frame, lost the buff
\* without a heal at the frame one second in, 500 ms past its end, and walks
\* at 300 px/s in the frame after that.
BuffEndedAfterOneHeal ==
    /\ now = ClockStart + 2000
    /\ Buff(player[1]) = <<FALSE, ClockStart + 500, ClockStart + FRAME_MS>>
    /\ player[1].hp = 85
    /\ player[1].vx = 300000

\* projectile u, already moved by the frame that reaches clock reading t, is
\* past neither its lifetime nor the playfield's 100 px margin
Live(u, t) ==
    /\ t - u.startTime <= 5000
    /\ u.x >= -100000 /\ u.x <= 1300000
    /\ u.y >= -100000 /\ u.y <= 900000

\* the circle of u overlaps the box of player q, who is not its owner and not
\* stealthed
Strikes(u, q, ownerId) ==
    /\ u.ownerId # ownerId
    /\ ~(q.isCrouching /\ q.terrain = "GRASS")
    /\ checkCircleRectCollision(u.x, u.y, u.radius, q.x, q.y, PW, PH)

\* the player, 1 or 2, that u hits, 0 if none: player one is tested first
Victim(u, t, ps) ==
    IF ~Live(u, t) THEN 0
    ELSE IF Strikes(u, ps[1], 0) THEN 1
    ELSE IF Strikes(u, ps[2], 1) THEN 2
    ELSE 0

\* the damage the projectiles us[k..] deal to player i
RECURSIVE DamageTo(_, _, _, _, _)
DamageTo(i, us, t, ps, k) ==
    IF k > Len(us) THEN 0
    ELSE (IF Victim(us[k], t, ps) = i THEN us[k].damage ELSE 0)
         + DamageTo(i, us, t, ps, k + 1)

\* C31: in a frame in the PLAYING state every projectile is moved, then
\* dropped without effect if past its lifetime or the margin, then tested
\* against the players, then against the platforms: each player loses the
\* damage of exactly the live projectiles that hit it, whether or not they
\* also touch a platform, a projectile hits at most one player, and the list
\* afterwards holds exactly the live projectiles that hit neither a player nor
\* a platform, so that no projectile hits twice.
ProjectileHitOrdering ==
    [][(gameState = "PLAYING" /\ now' # now
        /\ \A i \in Players : ~player[i].hasAdrenaline) =>
           LET us == [k \in 1..Len(projectiles) |->
                         ProjectileUpdate(projectiles[k], now' - now)]
           IN  /\ \A i \in Players :
                      player'[i].hp =
                          Max(0, player[i].hp - DamageTo(i, us, now', player', 1))
               /\ projectiles' =
                      SelectSeq(us, LAMBDA u : /\ Live(u, now')
                                               /\ Victim(u, now', player') = 0
                                               /\ ~HitsPlatform(u))]_vars

\* C31 witness: the ball thrown at ClockStart came down on player two's feet
\* and on the ground platform at once, took 35 hp and is gone.
BallHitAtGroundLevel ==
    /\ now = ClockStart + 1200
    /\ player[2].x = 0
    /\ player[2].hp \in {PLAYER_MAX_HP - BALL_DAMAGE, 0}
    /\ player[1].weapon = [type |-> "BALL", ammo |-> BALL_COUNT - 1,
                           lastAttackTime |-> ClockStart]
    /\ projectiles = << >>
    /\ gameState # "PAUSED"

\* C32: after every frame processed in the PLAYING state no projectile of the
\* list has its circle within its radius of a platform's rectangle and none is
\* more than 100 px outside the 1200 x 800 playfield; a projectile that the
\* frame moved onto a platform is not in the list afterwards.
NoProjectileOnPlatform ==
    [][(gameState = "PLAYING" /\ now' # now) =>
           /\ \A k \in 1..Len(projectiles') :
                  LET u == projectiles'[k]
                  IN  /\ \A j \in 1..Len(createPlatforms) :
                             LET pl == createPlatforms[j]
                             IN  ~checkCircleRectCollision(u.x, u.y, u.radius,
                                                           pl.x, pl.y, pl.w, pl.h)
                      /\ u.x >= -100000 /\ u.x <= 1300000
                      /\ u.y >= -100000 /\ u.y <= 900000
           /\ \A k \in 1..Len(projectiles) :
                  LET u == ProjectileUpdate(projectiles[k], now' - now)
                  IN  (\E j \in 1..Len(createPlatforms) :
                           LET pl == createPlatforms[j]
                           IN  checkCircleRectCollision(u.x, u.y, u.radius,
                                                        pl.x, pl.y, pl.w, pl.h))
                      => \A m \in 1..Len(projectiles') : projectiles'[m] # u]_vars

\* C32 witness: the ball thrown at ClockStart came down on the ground platform
\* with nobody near and is gone.
BallGoneOnTheGround ==
    /\ now = ClockStart + 1200
    /\ gameState = "PLAYING"
    /\ player[2].x = px(1000) /\ player[2].hp = PLAYER_MAX_HP
    /\ player[1].weapon = [type |-> "BALL", ammo |-> BALL_COUNT - 1,
                           lastAttackTime |-> ClockStart]
    /\ projectiles = << >>

\* horizontal velocity v (1/1000 px/s) after one update without a direction:
\* times 0.8, and exactly 0 once that is below 10 px/s
Decay(v) ==
    LET a == (Abs(v) * 8) \div 10
    IN  IF a < 10000 THEN 0 ELSE IF v < 0 THEN -a ELSE a

RECURSIVE DecayTimes(_, _)
DecayTimes(v, n) == IF n = 0 THEN v ELSE DecayTimes(Decay(v), n - 1)

\* C33: releasing a direction key clears both direction flags of the player,
\* also when both are set; an update of a living player that is not crouching
\* and has neither flag set multiplies its horizontal velocity by 0.8 and makes
\* it exactly 0 once the product is below 10 px/s (a border or a platform's
\* side can only stop it sooner); no speed exceeds 585 px/s, and 19 such
\* updates bring every speed the player can have to 0, where it stays.
FrictionStop ==
    /\ [](\A i \in Players :
            /\ Abs(player[i].vx) <= 585000
            /\ DecayTimes(player[i].vx, 19) = 0
            /\ DecayTimes(0, 1) = 0
            /\ gameState = "PLAYING" =>
                 \A k \in {"LEFT", "RIGHT"} :
                     ~ENABLED (HandleKeyRelease(i, k)
                               /\ (player'[i].isMovingLeft \/ player'[i].isMovingRight)))
    /\ [][\A i \in Players :
            (/\ gameState = "PLAYING" /\ now' # now
             /\ player[i].hp > 0
             /\ ~player[i].isCrouching
             /\ ~player[i].isMovingLeft /\ ~player[i].isMovingRight)
            => player'[i].vx \in {Decay(player[i].vx), 0}]_vars

\* C33 witness: player one glides at the 18th product of 585 px/s, with one
\* update to go.
LastGlideFrame ==
    /\ gameState = "PLAYING"
    /\ ~player[1].isMovingLeft /\ ~player[1].isMovingRight
    /\ DecayTimes(585000, 18) # 0
    /\ Abs(player[1].vx) = DecayTimes(585000, 18)

\* C34: a player whose hp is 0 keeps hp 0 through every step other than a
\* reset of the match.
DeadStaysDead ==
    [][\A i \in Players :
          (player[i].hp = 0 /\ ~ResetGame) => player'[i].hp = 0]_vars

\* C35: an attack command of a player whose hp is 0 changes no player's hp and
\* adds no projectile.
DeadCannotAttack ==
    [][\A i \in Players :
           (player[i].hp = 0 /\ HandleKeyPress(i, "FIRE")) =>
               /\ \A j \in Players : player'[j].hp = player[j].hp
               /\ projectiles' = projectiles]_vars

\* C36: the crouch command that takes a weapon item leaves the player with
\* full ammo for the item's weapon (ball 3, rifle 30, sniper 5, knife -1 for
\* infinite) and ready to attack at once, whatever ammo or cooldown the old
\* weapon had left and whether or not it was of the same type.
PickedUpWeaponIsReady ==
    [][\A i \in Players : \A k \in 1..Len(items) :
           (/\ gameState = "PLAYING"
            /\ HandleKeyPress(i, "CROUCH")
            /\ items[k].type \in WeaponItemTypes
            /\ ScanReaches(player[i], k)) =>
               LET v == player'[i].weapon
                   full == CASE items[k].type = "WEAPON_BALL" -> 3
                             [] items[k].type = "WEAPON_RIFLE" -> 30
                             [] items[k].type = "WEAPON_SNIPER" -> 5
                             [] items[k].type = "WEAPON_KNIFE" -> -1
                   wait == CASE items[k].type = "WEAPON_BALL" -> 1000
                             [] items[k].type = "WEAPON_RIFLE" -> 150
                             [] items[k].type = "WEAPON_SNIPER" -> 2000
                             [] items[k].type = "WEAPON_KNIFE" -> 600
               IN  /\ v.ammo = full
                   /\ now' - v.lastAttackTime >= wait
                   /\ canAttack(v, now')]_vars

\* C36 witness: player one fired its last sniper round and, in the same instant,
\* swapped the empty, cooling rifle for the fresh one lying next to it.
SniperReplacedWhileCooling ==
    /\ now = ClockStart
    /\ gameState = "PLAYING"
    /\ Len(projectiles) = 1 /\ projectiles[1].ownerId = 0
    /\ player[1].weapon = [type |-> "SNIPER", ammo |-> 5, lastAttackTime |-> 0]
    /\ ~items[1].isValid

\* C37: one application of adrenaline heals at most nine times 5 hp, 45 hp in
\* all, whatever the frame times: a player that took the shot at hp 10 never
\* has more than 55, each step raises its hp by 0 or 5, and once the buff is
\* over its hp stays.
OneDoseHealsAtMost45 ==
    /\ [](player[1].hp \in {10 + 5 * k : k \in 0..9})
    /\ [][/\ player'[1].hp - player[1].hp \in {0, 5}
          /\ ~player[1].hasAdrenaline => player'[1].hp = player[1].hp]_vars

\* C37 witness: the buff is over after nine heals.
NineHeals ==
    /\ ~player[1].hasAdrenaline
    /\ player[1].hp = 10 + 45

\* C38: after every frame processed in the PLAYING state each living player
\* has 0 <= x <= 1160 px and y <= 690 px, also when the platform pass has moved
\* it to a platform's edge.
PlayersInsidePlayfield ==
    [][(gameState = "PLAYING" /\ now' # now) =>
           \A i \in Players :
               player[i].hp > 0 =>
                   /\ player'[i].x >= 0 /\ player'[i].x <= 1160000
                   /\ player'[i].y <= 690000]_vars

\* C38 witness: player one, rising and walking right, ran into the left side
\* of the grass platform and was put back at its edge.
PushedBackFromPlatformSide ==
    /\ player[1].x = px(450) - PW
    /\ player[1].y < px(600) /\ player[1].y + PH > px(600)
    /\ player[1].vx = 0 /\ player[1].vy < 0
    /\ player[1].isMovingRight

\* C39: when a frame's update gives a living, non-crouching player with a
\* direction flag set a non-zero horizontal velocity, a negative velocity goes
\* with facing left and a positive one with facing right.
FacingMatchesMotion ==
    [][\A i \in Players :
           (/\ gameState = "PLAYING" /\ now' # now
            /\ player[i].hp > 0
            /\ ~player[i].isCrouching
            /\ (player[i].isMovingLeft \/ player[i].isMovingRight)
            /\ player'[i].vx # 0) =>
               /\ player'[i].vx < 0 => ~player'[i].facingRight
               /\ player'[i].vx > 0 => player'[i].facingRight]_vars

====
